---- MODULE Spec2Model ----
(***************************************************************************)
(* Receipt store of the request/reply bridge (firefly-ethconnect).         *)
(*                                                                         *)
(* State: the in-memory receipt list (memoryReceipts), the reservation set *)
(* of the receiptStore, the ingress flows that reserve an ID, produce to   *)
(* the bus and write the pending receipt, and the bus consumer task that   *)
(* runs processReply / writeReceipt for every reply message.               *)
(* The REST handlers getReply / getReplies answer from the same store.      *)
(* Times are in microseconds.                                              *)
(***************************************************************************)
EXTENDS Integers, Sequences, FiniteSets, TLC

VARIABLES
    rawConf,       \* the ReceiptStoreConf as handed to newReceiptStore
    persistence,   \* "memory", or "nil" when the receipt store is disabled
    http,          \* the REST request being served and what its handler did
    conf,          \* receipts.ReceiptStoreConf after newReceiptStore
    smartContractGW, \* TRUE when a contract gateway collaborator is configured
    receipts,      \* memoryReceipts.receipts: newest first
    reservedIDs,   \* receiptStore.reservedIDs
    flow,          \* ingress flows: position, request ID, HTTP status
    consumer,      \* the bus consumer task inside processReply/writeReceipt
    nReplies,      \* reply messages taken from the bus so far
    sendReplies,   \* receipts handed to smartContractGW.SendReply, in order
    postDeploys,   \* the calls of smartContractGW.PostDeploy, in order
    panicked,      \* log.Panicf was reached: the process aborted
    evictedIDs,    \* _id of every receipt the capped list has dropped so far
    topics,        \* webSocketServer.topics, by topic name
    closes,        \* per topic: how often each closing channel was closed
    wsMux,         \* webSocketServer.mux: 0, or the connection inside cycleTopic
    prod,          \* event streams: position inside attemptBatch
    sub,           \* WebSocket connections subscribed to a topic
    owed,          \* per connection: the batches its client has not answered
    bus,           \* kafkaCommon.Start, its tasks and the consumer group
    hook,          \* WebhooksBridge: its reply consumer and its collection
    cs             \* contractStore: the index, the registrations, the files

wsVars == <<topics, closes, wsMux, prod, sub, owed>>

otherVars == <<hook, cs>>

vars == <<rawConf, persistence, http, conf, smartContractGW, receipts,
          reservedIDs, flow, consumer, nReplies, sendReplies, postDeploys,
          panicked, evictedIDs, topics, closes, wsMux, prod, sub, owed, bus,
          hook, cs>>

----------------------------------------------------------------------------
(* Bounds of the model *)

NumFlows == 2
MaxReplies == 2
ConfRetryTimeoutMS == 25
ConfRetryInitialDelayMS == 10
ConfMaxDocs == 3
ConfQueryLimit == 2
SlowCallMS == 20
MaxAttempts == 5
MaxAdds == 5
NumProducers == 2
NumSubscribers == 2
MaxBatches == 2
MaxCycles == 2
MaxHookReplies == 4
MaxContracts == 3

(* Program constants *)

defaultReceiptLimit == 10
defaultRetryTimeout == 120000
defaultRetryInitialDelay == 500
defaultMaxDocs == 250
backoffNum == 11
backoffDen == 10
Millisecond == 1000

IDs == {"r1", "r2"}
NoId == ""
Flows == 1..NumFlows

MsgTypeError == "error"
MsgTypeTransactionSuccess == "transaction-success"
MsgTypeTransactionFailure == "transaction-failure"
MsgTypeTransactionRedeliveryPrevented == "transaction-redelivery-prevented"
MsgTypeSendTransaction == "SendTransaction"

ResubmissionPreventedCode == "ResubmissionPreventedCheckTransactionHash.code"
ResubmissionPreventedText == "ResubmissionPreventedCheckTransactionHash.text"

KeyNotUnique == "ReceiptStoreKeyNotUnique"
PersistenceError == "persistence error"
ProduceError == "produce error"
NoError == "nil"

----------------------------------------------------------------------------
(* Receipts and reply messages *)

NilReceipt ==
    [_id |-> "<nil>", requestId |-> NoId, type |-> "", pending |-> FALSE,
     msgAck |-> "", transactionHash |-> "", contractAddress |-> "",
     errorCode |-> "", errorMessage |-> ""]

\* A reply as it sits in the bus message: json is FALSE for bytes that do not
\* parse, headers is FALSE when "headers" is absent or not an object, and
\* requestId is NoId when headers.requestId is absent or not a string.
Reply(json, headers, requestId, type, hash, addr, errText) ==
    [json |-> json, headers |-> headers, requestId |-> requestId, type |-> type,
     transactionHash |-> hash, contractAddress |-> addr, errorMessage |-> errText]

NoMsg == Reply(FALSE, FALSE, NoId, "", "", "", "")

ReplyMessages ==
    {Reply(FALSE, FALSE, NoId, "", "", "", ""),
     Reply(TRUE, FALSE, NoId, "", "0xabcd", "0xc0", ""),
     Reply(TRUE, TRUE, NoId, MsgTypeTransactionSuccess, "0xabcd", "0xc0", ""),
     Reply(TRUE, TRUE, "r1", MsgTypeTransactionSuccess, "0xabcd", "", ""),
     Reply(TRUE, TRUE, "r1", MsgTypeTransactionSuccess, "0xabcd", "0xc0", ""),
     Reply(TRUE, TRUE, "r1", MsgTypeTransactionFailure, "0xdead", "", ""),
     Reply(TRUE, TRUE, "r1", MsgTypeError, "", "", "pop"),
     Reply(TRUE, TRUE, "r1", MsgTypeTransactionRedeliveryPrevented, "0xdead", "", "")}

----------------------------------------------------------------------------
(* newReceiptStore: configured values <= 0 fall back to the defaults *)

newReceiptStore(c) ==
    [RetryTimeoutMS |->
        IF c.RetryTimeoutMS <= 0 THEN defaultRetryTimeout ELSE c.RetryTimeoutMS,
     RetryInitialDelayMS |->
        IF c.RetryInitialDelayMS <= 0 THEN defaultRetryInitialDelay
        ELSE c.RetryInitialDelayMS,
     MaxDocs |-> IF c.MaxDocs <= 0 THEN defaultMaxDocs ELSE c.MaxDocs,
     QueryLimit |-> c.QueryLimit]

----------------------------------------------------------------------------
(* memoryReceipts: a list, newest receipt at the front *)

\* GetReceipt that returns the oldest receipt of the ID.
GetReceiptOldest(l, requestID) ==
    LET hits == {i \in 1..Len(l) : l[i]._id = requestID}
    IN  IF hits = {} THEN NilReceipt
        ELSE l[CHOOSE i \in hits : \A j \in hits : i >= j]

\* GetReceipt walks from the front and returns the first receipt whose _id
\* is requestID, or nil.
GetReceipt(l, requestID) ==
    LET hits == {i \in 1..Len(l) : l[i]._id = requestID}
    IN  IF hits = {} THEN NilReceipt
        ELSE l[CHOOSE i \in hits : \A j \in hits : i <= j]

\* AddReceipt that drops a receipt only once the list is over its capacity.
AddReceiptLate(l, maxDocs, requestID, receipt, overwrite) ==
    LET curLen == Len(l)
        kept   == IF curLen > 0 /\ curLen > maxDocs THEN SubSeq(l, 1, curLen - 1) ELSE l
    IN  <<receipt>> \o kept

\* AddReceipt drops the receipt at the back when the list is full and pushes
\* the new receipt at the front.  The list implementation has no use for the
\* requestID and overwrite arguments of the persistence interface.
AddReceipt(l, maxDocs, requestID, receipt, overwrite) ==
    LET curLen == Len(l)
        kept   == IF curLen > 0 /\ curLen >= maxDocs THEN SubSeq(l, 1, curLen - 1) ELSE l
    IN  <<receipt>> \o kept

\* The _id of the receipt an AddReceipt on l drops, if it drops one.
dropped(l, maxDocs) ==
    IF Len(l) > 0 /\ Len(l) >= maxDocs THEN {l[Len(l)]._id} ELSE {}

----------------------------------------------------------------------------
(* receiptStore *)

\* reserveID without the look at the reservation set.
reserveIDNoSet(recs, reserved, msgID, getOK) ==
    IF ~getOK
    THEN [err |-> PersistenceError, reservedIDs |-> reserved, release |-> FALSE]
    ELSE IF GetReceipt(recs, msgID) # NilReceipt
    THEN [err |-> KeyNotUnique, reservedIDs |-> reserved, release |-> FALSE]
    ELSE [err |-> NoError, reservedIDs |-> reserved \cup {msgID}, release |-> TRUE]

\* reserveID without the look at persistence.
reserveIDNoStore(recs, reserved, msgID, getOK) ==
    IF msgID \in reserved
    THEN [err |-> KeyNotUnique, reservedIDs |-> reserved, release |-> FALSE]
    ELSE [err |-> NoError, reservedIDs |-> reserved \cup {msgID}, release |-> TRUE]

\* reserveID that marks the ID before it checks for a duplicate.
reserveIDMarkFirst(recs, reserved, msgID, getOK) ==
    IF ~getOK
    THEN [err |-> PersistenceError, reservedIDs |-> reserved, release |-> FALSE]
    ELSE IF GetReceipt(recs, msgID) # NilReceipt \/ msgID \in reserved
    THEN [err |-> KeyNotUnique, reservedIDs |-> reserved \cup {msgID}, release |-> FALSE]
    ELSE [err |-> NoError, reservedIDs |-> reserved \cup {msgID}, release |-> TRUE]

\* reserveID under reservationMux.  getOK is FALSE when persistence.GetReceipt
\* returns an error.  release is TRUE when a release handle is returned.
reserveID(recs, reserved, msgID, getOK) ==
    IF ~getOK
    THEN [err |-> PersistenceError, reservedIDs |-> reserved, release |-> FALSE]
    ELSE IF GetReceipt(recs, msgID) # NilReceipt \/ msgID \in reserved
    THEN [err |-> KeyNotUnique, reservedIDs |-> reserved, release |-> FALSE]
    ELSE [err |-> NoError, reservedIDs |-> reserved \cup {msgID}, release |-> TRUE]

\* The release handle returned by reserveID(msgID).
release(reserved, msgID) == reserved \ {msgID}

\* writeAccepted stamps the message handed in by ingress.  hdrRequestId is
\* what the caller's message holds at headers.requestId (NoId when nothing).
acceptedReceipt(msgID, msgAck, hdrRequestId) ==
    [_id |-> msgID, requestId |-> hdrRequestId, type |-> MsgTypeSendTransaction,
     pending |-> TRUE, msgAck |-> msgAck, transactionHash |-> "",
     contractAddress |-> "", errorCode |-> "", errorMessage |-> ""]

\* validReply without the check of headers.requestId.
validReplyAnyId(msg) == msg.json /\ msg.headers

\* processReply up to the classification: a reply is processed only when it
\* parses, has a headers object and a non-empty string headers.requestId.
validReply(msg) == msg.json /\ msg.headers /\ msg.requestId # NoId

\* A stored receipt that a redelivery-prevented reply must not overwrite.
goodReceipt(existing) ==
    /\ existing # NilReceipt
    /\ existing.type \in {MsgTypeTransactionFailure, MsgTypeTransactionSuccess}

\* replyReceipt that leaves a redelivery-prevented reply as it came.
replyReceiptAsIs(msg) ==
    [_id |-> msg.requestId, requestId |-> msg.requestId, type |-> msg.type,
     pending |-> FALSE, msgAck |-> "",
     transactionHash |-> msg.transactionHash,
     contractAddress |-> msg.contractAddress,
     errorCode |-> "", errorMessage |-> msg.errorMessage]

\* replyReceipt that does not stamp _id.
replyReceiptNoKey(msg) ==
    LET synthetic == msg.type = MsgTypeTransactionRedeliveryPrevented
    IN  [_id |-> NoId, requestId |-> msg.requestId, type |-> msg.type,
         pending |-> FALSE, msgAck |-> "",
         transactionHash |-> msg.transactionHash,
         contractAddress |-> msg.contractAddress,
         errorCode |-> IF synthetic THEN ResubmissionPreventedCode ELSE "",
         errorMessage |-> IF synthetic THEN ResubmissionPreventedText
                          ELSE msg.errorMessage]

\* The receipt processReply builds from a reply it does not drop.
replyReceipt(msg) ==
    LET synthetic == msg.type = MsgTypeTransactionRedeliveryPrevented
    IN  [_id |-> msg.requestId, requestId |-> msg.requestId, type |-> msg.type,
         pending |-> FALSE, msgAck |-> "",
         transactionHash |-> msg.transactionHash,
         contractAddress |-> msg.contractAddress,
         errorCode |-> IF synthetic THEN ResubmissionPreventedCode ELSE "",
         errorMessage |-> IF synthetic THEN ResubmissionPreventedText
                          ELSE msg.errorMessage]

\* wantsPostDeploy without the test of the contract address.
wantsPostDeployAnyAddr(gw, msg) == gw /\ msg.type = MsgTypeTransactionSuccess

\* PostDeploy is attempted for a transaction success that names a contract,
\* when a gateway is configured.
wantsPostDeploy(gw, msg) ==
    gw /\ msg.type = MsgTypeTransactionSuccess /\ msg.contractAddress # ""

\* backoff that leaves the delay as it is.
backoffFixed(delay) == delay

\* delay = time.Duration(float64(delay) * backoffFactor)
backoff(delay) == (delay * backoffNum) \div backoffDen

\* timedOut that measures against the initial delay.
timedOutOnDelay(elapsed, c) == elapsed > c.RetryInitialDelayMS * Millisecond

\* timeRetrying > retryTimeout, after a failed attempt
timedOut(elapsed, c) == elapsed > c.RetryTimeoutMS * Millisecond

\* The local variables of a writeReceipt call before its first turn.
newWrite(c) == [attempt |-> 0, delay |-> c.RetryInitialDelayMS * Millisecond, elapsed |-> 0]

\* writeReceiptTurn that goes on to the deadline check whatever the flag.
writeReceiptTurnAlwaysRetry(w, c, ok, dur, overwriteAndRetry) ==
    LET slept   == IF w.attempt > 0 THEN w.delay ELSE 0
        delay   == IF w.attempt > 0 THEN backoff(w.delay) ELSE w.delay
        elapsed == w.elapsed + slept + dur
    IN  [w |-> [attempt |-> w.attempt + 1, delay |-> delay, elapsed |-> elapsed],
         slept |-> slept,
         outcome |-> IF ok THEN "inserted"
                     ELSE IF timedOut(elapsed, c) THEN "panic"
                     ELSE "retry"]

\* One turn of the loop of writeReceipt: the sleep and backoff when this is
\* not the first attempt, the AddReceipt call (ok, taking dur), and what the
\* loop does next: break ("inserted"), return err ("error"), log.Panicf
\* ("panic") or go round again ("retry").
writeReceiptTurn(w, c, ok, dur, overwriteAndRetry) ==
    LET slept   == IF w.attempt > 0 THEN w.delay ELSE 0
        delay   == IF w.attempt > 0 THEN backoff(w.delay) ELSE w.delay
        elapsed == w.elapsed + slept + dur
    IN  [w |-> [attempt |-> w.attempt + 1, delay |-> delay, elapsed |-> elapsed],
         slept |-> slept,
         outcome |-> IF ok THEN "inserted"
                     ELSE IF ~overwriteAndRetry THEN "error"
                     ELSE IF timedOut(elapsed, c) THEN "panic"
                     ELSE "retry"]

\* afterInsert with the test of the gateway the wrong way round.
afterInsertInverted(gw, sent, receipt) == IF ~gw THEN Append(sent, receipt) ELSE sent

\* SendReply is called after a successful AddReceipt when a gateway is set.
afterInsert(gw, sent, receipt) == IF gw THEN Append(sent, receipt) ELSE sent

IdleConsumer ==
    [pc |-> "idle", receipt |-> NilReceipt, attempt |-> 0, delay |-> 0, elapsed |-> 0]

\* w holds the locals of the flow's writeReceipt call, slept what it has slept.
IdleFlow ==
    [pc |-> "idle", id |-> NoId, err |-> NoError, status |-> 0,
     w |-> [attempt |-> 0, delay |-> 0, elapsed |-> 0], slept |-> 0]

\* The HTTP status ingress answers for an error kind.
statusOf(err) ==
    IF err = NoError THEN 202 ELSE IF err = KeyNotUnique THEN 409 ELSE 500

CallDurations == {0, SlowCallMS * Millisecond}

\* The request IDs a flow may be submitted with.  Flows are interchangeable,
\* so the first one always uses "r1".
FlowIDs(f) == IF f = 1 THEN {"r1"} ELSE IDs

----------------------------------------------------------------------------
(* The WebSocket hub and the event streams delivering to it *)

Producers == 1..NumProducers
Subscribers == 1..NumSubscribers
TopicNames == {"", "t1"}

DistributionModeBroadcast == "broadcast"
DistributionModeWLD == "workloadDistribution"
DistributionModes == {DistributionModeBroadcast, DistributionModeWLD}

InterruptedSend == "EventStreamsWebSocketInterruptedSend"
InterruptedReceive == "EventStreamsWebSocketInterruptedReceive"
ClientError == "Error received from client"

\* A name the map has no topic for.  made counts the topics ever created for
\* the name; serial identifies the sender and receiver channels made with the
\* topic, closing the closing channel it has now (an index into closes).
NoTopic == [made |-> 0, serial |-> 0, closing |-> 0]

\* An event stream outside attemptBatch.  sender and closing are the channels
\* it got from GetChannels, taker is the connection that took its batch from
\* the channel (0: none, Hub: the fan-out of the hub), via is the case of the
\* select that ended the last wait, calls counts the calls of attemptBatch.
IdleProducer ==
    [pc |-> "idle", topic |-> "", mode |-> DistributionModeWLD, sender |-> 0,
     closing |-> 0, taker |-> 0, via |-> "", err |-> NoError, calls |-> 0]

Hub == NumSubscribers + 1

\* No connection.
NoConnection == [pc |-> "closed", topic |-> "", sender |-> 0]

\* The topics an event stream is configured with and a client listens on.
\* Streams and clients are interchangeable, so the first of each uses "".
TopicsOf(i) == IF i = 1 THEN {""} ELSE TopicNames

WsQuiet ==
    /\ topics = [t \in TopicNames |-> NoTopic]
    /\ closes = [t \in TopicNames |-> <<>>]
    /\ wsMux = 0
    /\ prod = [p \in Producers |-> IdleProducer]
    /\ sub = [c \in Subscribers |-> NoConnection]
    /\ owed = [c \in Subscribers |-> <<>>]

----------------------------------------------------------------------------
(* The bus gateway *)

TaskNames ==
    {"consumerErrors", "notifications", "messages", "producerErrors",
     "producerSuccesses"}

ConsumerTasks == {"consumerErrors", "notifications", "messages"}
ProducerTasks == {"producerErrors", "producerSuccesses"}

\* Before Start.  start is the position inside Start, signals the number of
\* interrupts waiting in k.signals, task the state of each goroutine, calls
\* the calls made on the producer and the consumer, consumerChans and
\* producerChans the state of the channels of the two clients, current the
\* offset of the message inside processReply (0: none), persisted the
\* offsets whose receipt was written, marked the offsets handed to
\* MarkOffset, dones the number of wg.Done calls of the messages loop,
\* consumer and producer the fields k.consumer and k.producer, args the
\* consumer and the producer a loop was started with (<<>>: not started, or
\* a goroutine that takes no arguments).
NoBus ==
    [start |-> "connect", signals |-> 0, producerWG |-> 0, consumerWG |-> 0,
     task |-> [t \in TaskNames |-> "none"], calls |-> <<>>,
     consumer |-> "nil", producer |-> "nil",
     args |-> [t \in TaskNames |-> <<>>],
     consumerChans |-> "none", producerChans |-> "none",
     current |-> 0, persisted |-> <<>>, marked |-> {}, dones |-> 0]

----------------------------------------------------------------------------
(* The webhooks bridge *)

\* The reply consumer of the webhooks bridge before its first message.  pc is
\* "idle" between two calls of processReply and "panicked" once a call has
\* not returned; calls counts the calls, inserted is the collection (the _id
\* of every document inserted, in order), attempts the calls of Insert made
\* for the last message, and last the way the last call ended.
NoHook ==
    [pc |-> "idle", mongo |-> TRUE, calls |-> 0, inserted |-> <<>>,
     attempts |-> 0, last |-> "none"]

\* A value of the parsed JSON: kind is "absent" for a key that is not there,
\* "null" for JSON null, "string" for a string (val), "object" for an object
\* and "other" for a number, a boolean or an array.
Absent == [kind |-> "absent", val |-> ""]
Null == [kind |-> "null", val |-> ""]
Other == [kind |-> "other", val |-> ""]
Object == [kind |-> "object", val |-> ""]
String(v) == [kind |-> "string", val |-> v]

\* The reply messages the webhooks bridge may be given: json tells whether the
\* bytes parse, headers and requestId are the values at "headers" and at
\* headers.requestId, field stands for the other values read with getString
\* (reqOffset, type, errorMessage or transactionHash).
HookMessages ==
    [json : BOOLEAN,
     headers : {Absent, Null, Other, Object},
     requestId : {Absent, Null, Other, String("")} \cup {String(id) : id \in IDs},
     field : {Absent, Null, String("x")}]

----------------------------------------------------------------------------
(* The contract store *)

\* The addresses contracts are deployed at and the names they may be
\* registered as ("": no name).
Addresses == {"a1", "a2"}
RegisteredNames == {"n1", "n2"}

\* No ContractInfo at a key of the maps.
NoInfo == [Address |-> "", RegisteredAs |-> ""]

RESTGatewayFriendlyNameClash == "RESTGatewayFriendlyNameClash"
RESTGatewayLocalStoreContractSave == "RESTGatewayLocalStoreContractSave"
RESTGatewayLocalStoreContractLoad == "RESTGatewayLocalStoreContractLoad"
RESTGatewayLocalStoreContractNotFound == "RESTGatewayLocalStoreContractNotFound"

\* A new contractStore: no contract indexed, no name registered, no instance
\* file written.  calls counts the calls of AddContract, last is the error
\* of the last one.
NoContracts ==
    [contractIndex |-> [a \in Addresses |-> NoInfo],
     contractRegistrations |-> [n \in RegisteredNames |-> NoInfo],
     files |-> {}, calls |-> 0, last |-> ""]

----------------------------------------------------------------------------
\* No REST request is being served.
NoHttp ==
    [req |-> [handler |-> "none", auth |-> TRUE, id |-> "",
              q |-> [ids |-> <<>>, limit |-> "", skip |-> "", since |-> ""],
              getOK |-> TRUE],
     res |-> [responses |-> <<>>, body |-> <<>>, queries |-> 0, crashed |-> FALSE]]

\* The configuration the bridge is run with.
Configured ==
    [RetryTimeoutMS |-> ConfRetryTimeoutMS,
     RetryInitialDelayMS |-> ConfRetryInitialDelayMS,
     MaxDocs |-> ConfMaxDocs, QueryLimit |-> ConfQueryLimit]

Init ==
    /\ rawConf = Configured
    /\ persistence = "memory"
    /\ http = NoHttp
    /\ conf = newReceiptStore(rawConf)
    /\ smartContractGW \in BOOLEAN
    /\ receipts = <<>>
    /\ reservedIDs = {}
    /\ flow = [f \in Flows |-> IdleFlow]
    /\ consumer = IdleConsumer
    /\ nReplies = 0
    /\ sendReplies = <<>>
    /\ postDeploys = <<>>
    /\ panicked = FALSE
    /\ evictedIDs = {}
    /\ WsQuiet
    /\ bus = NoBus
    /\ hook = NoHook
    /\ cs = NoContracts

----------------------------------------------------------------------------
(* Ingress: reserve the ID, produce to the bus, write the pending receipt,  *)
(* release the reservation.  A flow in "reserved", "produced", "failed" or  *)
(* "written" holds the release handle of its reservation; "rejected" is a   *)
(* flow whose reserveID failed, "done" one that has released.               *)

FlowReserve(f, id, getOK) ==
    /\ ~panicked
    /\ flow[f].pc = "idle"
    /\ LET res == reserveID(receipts, reservedIDs, id, getOK)
       IN  /\ reservedIDs' = res.reservedIDs
           /\ flow' = [flow EXCEPT ![f] =
                 IF res.release
                 THEN [@ EXCEPT !.pc = "reserved", !.id = id, !.err = res.err]
                 ELSE [@ EXCEPT !.pc = "rejected", !.id = id, !.err = res.err,
                                !.status = statusOf(res.err)]]
    /\ UNCHANGED <<otherVars, wsVars, bus, rawConf, persistence, http, conf,
                   smartContractGW, receipts, consumer, nReplies, sendReplies,
                   postDeploys, panicked, evictedIDs>>

FlowProduce(f, ok) ==
    /\ ~panicked
    /\ flow[f].pc = "reserved"
    /\ flow' = [flow EXCEPT ![f] =
          IF ok THEN [@ EXCEPT !.pc = "produced"]
          ELSE [@ EXCEPT !.pc = "failed", !.err = ProduceError,
                         !.status = statusOf(ProduceError)]]
    /\ UNCHANGED <<otherVars, wsVars, bus, rawConf, persistence, http, conf,
                   smartContractGW, receipts, reservedIDs, consumer, nReplies,
                   sendReplies, postDeploys, panicked, evictedIDs>>

\* writeAccepted -> writeReceipt(msgID, msg, false): a turn of the loop.  With
\* the flag false the first turn ends the call: SendReply and nil when the
\* AddReceipt succeeded, the error when it failed.
FlowWriteAccepted(f, hdrRequestId, ok) ==
    /\ ~panicked
    /\ flow[f].pc = "produced"
    /\ LET msgID == flow[f].id
           msg   == acceptedReceipt(msgID, "ack", hdrRequestId)
           w     == IF flow[f].w.attempt = 0 THEN newWrite(conf) ELSE flow[f].w
           turn  == writeReceiptTurn(w, conf, ok, 0, FALSE)
           done  == turn.outcome \in {"inserted", "error"}
           err   == IF turn.outcome = "inserted" THEN NoError ELSE PersistenceError
       IN  /\ receipts' = IF ok THEN AddReceipt(receipts, conf.MaxDocs, msgID, msg, FALSE)
                          ELSE receipts
           /\ evictedIDs' = IF ok THEN evictedIDs \cup dropped(receipts, conf.MaxDocs)
                            ELSE evictedIDs
           /\ sendReplies' = IF turn.outcome = "inserted"
                             THEN afterInsert(smartContractGW, sendReplies, msg)
                             ELSE sendReplies
           /\ panicked' = (turn.outcome = "panic")
           /\ flow' = [flow EXCEPT ![f] =
                 IF done
                 THEN [@ EXCEPT !.pc = "written", !.err = err, !.status = statusOf(err),
                                !.w = turn.w, !.slept = @ + turn.slept]
                 ELSE [@ EXCEPT !.w = turn.w, !.slept = @ + turn.slept]]
    /\ UNCHANGED <<otherVars, wsVars, bus, rawConf, persistence, http, conf,
                   smartContractGW, reservedIDs, consumer, nReplies,
                   postDeploys>>

FlowRelease(f) ==
    /\ ~panicked
    /\ flow[f].pc \in {"written", "failed"}
    /\ reservedIDs' = release(reservedIDs, flow[f].id)
    /\ flow' = [flow EXCEPT ![f] = [@ EXCEPT !.pc = "done"]]
    /\ UNCHANGED <<otherVars, wsVars, bus, rawConf, persistence, http, conf,
                   smartContractGW, receipts, consumer, nReplies, sendReplies,
                   postDeploys, panicked, evictedIDs>>

----------------------------------------------------------------------------
(* The bus consumer: processReply, then the writeReceipt loop *)

\* processReply from the parse to the call of writeReceipt.  getOK is FALSE
\* when the GetReceipt of the redelivery-prevented branch returns an error,
\* parseOK is FALSE when the reply does not unmarshal as a TransactionReceipt,
\* deployOK is FALSE when PostDeploy returns an error.
processReply(msg, getOK, parseOK, deployOK) ==
    /\ ~panicked
    /\ consumer.pc = "idle"
    /\ nReplies < MaxReplies
    /\ msg.type # MsgTypeTransactionRedeliveryPrevented => getOK
    /\ ~wantsPostDeploy(smartContractGW, msg) => parseOK
    /\ ~(validReply(msg) /\ wantsPostDeploy(smartContractGW, msg) /\ parseOK) => deployOK
    /\ nReplies' = nReplies + 1
    /\ LET existing == GetReceipt(receipts, msg.requestId)
           ignored  == /\ msg.type = MsgTypeTransactionRedeliveryPrevented
                       /\ getOK
                       /\ goodReceipt(existing)
       IN  IF ~validReply(msg) \/ ignored
           THEN UNCHANGED <<consumer, postDeploys>>
           ELSE /\ postDeploys' =
                      IF wantsPostDeploy(smartContractGW, msg) /\ parseOK
                      THEN Append(postDeploys, [requestId |-> msg.requestId,
                                                err |-> ~deployOK])
                      ELSE postDeploys
                /\ consumer' =
                      IF msg.requestId # NoId /\ persistence # "nil"
                      THEN [pc |-> "write", receipt |-> replyReceipt(msg),
                            attempt |-> newWrite(conf).attempt,
                            delay |-> newWrite(conf).delay,
                            elapsed |-> newWrite(conf).elapsed]
                      ELSE consumer
    /\ UNCHANGED <<otherVars, wsVars, rawConf, persistence, http, conf,
                   smartContractGW, receipts, reservedIDs, flow, sendReplies,
                   panicked, evictedIDs>>

\* processReply as the bus consumer of the bridge runs it.
ReplyBegin(msg, getOK, parseOK, deployOK) ==
    /\ processReply(msg, getOK, parseOK, deployOK)
    /\ UNCHANGED bus

\* One turn of the writeReceipt loop with overwriteAndRetry = true: sleep
\* (not before the first attempt), AddReceipt, then SendReply, or the
\* deadline check.  dur is the time the AddReceipt call itself took.
\* Persistence fails at most MaxAttempts times in a row.
writeReceipt(ok, dur) ==
    /\ ~panicked
    /\ consumer.pc = "write"
    /\ ~ok => consumer.attempt < MaxAttempts
    /\ LET w    == [attempt |-> consumer.attempt, delay |-> consumer.delay,
                    elapsed |-> consumer.elapsed]
           turn == writeReceiptTurn(w, conf, ok, dur, TRUE)
           rid  == consumer.receipt._id
       IN  IF turn.outcome = "inserted"
           THEN /\ receipts' = AddReceipt(receipts, conf.MaxDocs, rid, consumer.receipt, TRUE)
                /\ evictedIDs' = evictedIDs \cup dropped(receipts, conf.MaxDocs)
                /\ sendReplies' = afterInsert(smartContractGW, sendReplies, consumer.receipt)
                /\ consumer' = IdleConsumer
                /\ UNCHANGED panicked
           ELSE /\ panicked' = (turn.outcome = "panic")
                /\ consumer' =
                      IF turn.outcome = "error" THEN IdleConsumer
                      ELSE [consumer EXCEPT !.attempt = turn.w.attempt,
                                            !.delay = turn.w.delay,
                                            !.elapsed = turn.w.elapsed]
                /\ UNCHANGED <<receipts, sendReplies, evictedIDs>>
    /\ UNCHANGED <<otherVars, wsVars, rawConf, persistence, http, conf,
                   smartContractGW, reservedIDs, flow, nReplies, postDeploys>>

\* The turn of the loop inside the bus consumer of the bridge.
WriteAttempt(ok, dur) ==
    /\ writeReceipt(ok, dur)
    /\ UNCHANGED bus

Next ==
    \/ \E f \in Flows, getOK \in BOOLEAN : \E id \in FlowIDs(f) :
          FlowReserve(f, id, getOK)
    \/ \E f \in Flows, ok \in BOOLEAN : FlowProduce(f, ok)
    \/ \E f \in Flows, ok \in BOOLEAN : \E h \in {NoId, flow[f].id} :
          FlowWriteAccepted(f, h, ok)
    \/ \E f \in Flows : FlowRelease(f)
    \/ \E msg \in ReplyMessages, getOK \in BOOLEAN, parseOK \in BOOLEAN,
          deployOK \in BOOLEAN :
          ReplyBegin(msg, getOK, parseOK, deployOK)
    \/ \E ok \in BOOLEAN, dur \in CallDurations : WriteAttempt(ok, dur)

Spec == Init /\ [][Next]_vars

\* The consumer task keeps running: a started writeReceipt loop takes its
\* next turn.
LiveSpec == Spec /\ WF_vars(\E ok \in BOOLEAN, dur \in CallDurations : WriteAttempt(ok, dur))

----------------------------------------------------------------------------
(* The reply path under every way of configuring the retry: values <= 0 ask *)
(* for the defaults.  Ingress is quiet.                                     *)

RawConfs ==
    {[Configured EXCEPT !.RetryTimeoutMS = t, !.RetryInitialDelayMS = d] :
        t \in {ConfRetryTimeoutMS, 0, -1}, d \in {ConfRetryInitialDelayMS, 0, -1}}

RetryInit ==
    /\ rawConf \in RawConfs
    /\ persistence = "memory"
    /\ http = NoHttp
    /\ conf = newReceiptStore(rawConf)
    /\ smartContractGW \in BOOLEAN
    /\ receipts = <<>>
    /\ reservedIDs = {}
    /\ flow = [f \in Flows |-> IdleFlow]
    /\ consumer = IdleConsumer
    /\ nReplies = 0
    /\ sendReplies = <<>>
    /\ postDeploys = <<>>
    /\ panicked = FALSE
    /\ evictedIDs = {}
    /\ WsQuiet
    /\ bus = NoBus
    /\ hook = NoHook
    /\ cs = NoContracts

RetryNext ==
    \/ \E msg \in ReplyMessages, getOK \in BOOLEAN, parseOK \in BOOLEAN,
          deployOK \in BOOLEAN :
          ReplyBegin(msg, getOK, parseOK, deployOK)
    \/ \E ok \in BOOLEAN, dur \in CallDurations : WriteAttempt(ok, dur)

RetrySpec == RetryInit /\ [][RetryNext]_vars

----------------------------------------------------------------------------
(* memoryReceipts.GetReceipts and the REST handlers *)

\* The walk of GetReceipts: the position reached after stepping over n
\* elements from pos, or the end of the list.
RECURSIVE advance(_, _, _)
advance(l, pos, n) ==
    IF n <= 0 \/ pos > Len(l) THEN pos ELSE advance(l, pos + 1, n - 1)

\* The walk of GetReceipts: up to n elements collected from pos on.
RECURSIVE collect(_, _, _)
collect(l, pos, n) ==
    IF n <= 0 \/ pos > Len(l) THEN <<>> ELSE <<l[pos]>> \o collect(l, pos + 1, n - 1)

\* GetReceipts of the list store: id filtering is an error; otherwise skip
\* elements are stepped over from the front and up to limit collected.
GetReceipts(l, skip, limit, ids) ==
    IF Len(ids) > 0
    THEN [err |-> TRUE, results |-> <<>>]
    ELSE [err |-> FALSE, results |-> collect(l, advance(l, 1, skip), limit)]

\* strconv.ParseInt(s, 10, 32) on the strings a request may carry.
ParseInt(s) ==
    LET val == ("-1" :> -1) @@ ("0" :> 0) @@ ("1" :> 1) @@ ("2" :> 2) @@ ("3" :> 3)
               @@ ("4" :> 4) @@ ("5" :> 5)
    IN  IF s \in DOMAIN val THEN [ok |-> TRUE, val |-> val[s]]
        ELSE [ok |-> FALSE, val |-> 0]

\* uuidCharsVerifier.MatchString on the id values a request may carry.
uuidCharsVerifier(id) == id \in {"r1", "r2", "ABC-123"}

\* since parses as RFC3339 or as epoch milliseconds.
sinceParses(since) == since \in {"2019-01-01T00:00:00Z", "1546300800000"}

LimitStrs == {"", "ness", "-1", "0", "1", "2", "3", "4"}
SkipStrs == {"", "ness", "0", "1", "2"}
SinceStrs == {"", "2019-01-01T00:00:00Z", "1546300800000", "badness"}
IdParams == {<<>>, <<"r1">>, <<"r1", "r 2">>}

\* The query of a GET /replies request.
Queries == [ids : IdParams, limit : LimitStrs, skip : SkipStrs, since : SinceStrs]

\* What a handler did: the statuses it wrote, in order, the receipts of the
\* body it marshalled, the queries it made of the persistence tier, and
\* whether it ended in a runtime panic.
Answer(responses, body, queries) ==
    [responses |-> responses, body |-> body, queries |-> queries, crashed |-> FALSE]

Crash == [responses |-> <<>>, body |-> <<>>, queries |-> 0, crashed |-> TRUE]

\* getReply that looks at the store before it asks the auth collaborator.
getReplyStoreFirst(auth, requestID, pers, recs, getOK) ==
    IF pers = "nil" THEN Crash
    ELSE IF ~auth THEN Answer(<<401>>, <<>>, 0)
    ELSE IF ~getOK THEN Answer(<<500>>, <<>>, 1)
    ELSE IF GetReceipt(recs, requestID) = NilReceipt THEN Answer(<<404>>, <<>>, 1)
    ELSE Answer(<<200>>, <<GetReceipt(recs, requestID)>>, 1)

\* getReply.  auth is FALSE when the auth collaborator denies, getOK is FALSE
\* when persistence.GetReceipt returns an error.  The handler calls
\* r.persistence.GetReceipt with no test of r.persistence: on a nil interface
\* that is a runtime panic and no response is written.
getReply(auth, requestID, pers, recs, getOK) ==
    IF ~auth THEN Answer(<<401>>, <<>>, 0)
    ELSE IF pers = "nil" THEN Crash
    ELSE IF ~getOK THEN Answer(<<500>>, <<>>, 1)
    ELSE IF GetReceipt(recs, requestID) = NilReceipt THEN Answer(<<404>>, <<>>, 1)
    ELSE Answer(<<200>>, <<GetReceipt(recs, requestID)>>, 1)

\* getReplies that goes on to the query with whatever limit was asked for.
getRepliesAnyLimit(auth, q, pers, c, recs, getOK) ==
    LET pl    == ParseInt(q.limit)
        limit == IF q.limit # "" /\ pl.ok /\ pl.val > 0 THEN pl.val
                 ELSE IF Len(q.ids) > 0 THEN 0 ELSE defaultReceiptLimit
        ps    == ParseInt(q.skip)
        found == GetReceipts(recs, IF q.skip # "" THEN ps.val ELSE 0, limit, q.ids)
    IN  IF ~auth THEN Answer(<<401>>, <<>>, 0)
        ELSE IF pers = "nil" THEN Answer(<<405>>, <<>>, 0)
        ELSE IF ~getOK \/ found.err THEN Answer(<<500>>, <<>>, 1)
        ELSE Answer(<<200>>, found.results, 1)

\* getReplies.  auth is FALSE when the auth collaborator denies, getOK is
\* FALSE when persistence.GetReceipts returns an error.  A since that does
\* not parse writes a 400 and, with no return after it, the handler goes on
\* to the query and writes again.
getReplies(auth, q, pers, c, recs, getOK) ==
    LET hasIds      == Len(q.ids) > 0
        badId       == \E i \in 1..Len(q.ids) : ~uuidCharsVerifier(q.ids[i])
        pl          == ParseInt(q.limit)
        limitTooBig == q.limit # "" /\ pl.ok /\ pl.val > c.QueryLimit
        limitBad    == q.limit # "" /\ ~pl.ok
        limit       == IF q.limit # "" /\ pl.ok /\ pl.val > 0 THEN pl.val
                       ELSE IF hasIds THEN 0 ELSE defaultReceiptLimit
        ps          == ParseInt(q.skip)
        skipBad     == q.skip # "" /\ ~(ps.ok /\ ps.val > 0)
        skip        == IF q.skip # "" THEN ps.val ELSE 0
        sinceBad    == q.since # "" /\ ~sinceParses(q.since)
        written     == IF sinceBad THEN <<400>> ELSE <<>>
        found       == GetReceipts(recs, skip, limit, q.ids)
    IN  IF ~auth THEN Answer(<<401>>, <<>>, 0)
        ELSE IF pers = "nil" THEN Answer(<<405>>, <<>>, 0)
        ELSE IF badId \/ limitTooBig \/ limitBad \/ skipBad THEN Answer(<<400>>, <<>>, 0)
        ELSE IF ~getOK \/ found.err THEN Answer(written \o <<500>>, <<>>, 1)
        ELSE Answer(written \o <<200>>, found.results, 1)

\* The bus acknowledgements of the requests written, in the order of writing.
Acks == <<"a1", "a2", "a3", "a4", "a5", "a6", "a7", "a8">>

\* The number of the acknowledgement to come after those of the list.
nextAck(l) ==
    LET seen == {k \in 1..Len(Acks) : \E i \in 1..Len(l) : l[i].msgAck = Acks[k]}
    IN  IF seen = {} THEN 1 ELSE 1 + CHOOSE k \in seen : \A j \in seen : k >= j

----------------------------------------------------------------------------
(* The store behind the REST API: receipts are added, requests are served. *)

\* persistence.AddReceipt of the accepted receipt of request id.
StoreAdd(id) ==
    /\ persistence = "memory"
    /\ nextAck(receipts) <= MaxAdds
    /\ receipts' = AddReceipt(receipts, conf.MaxDocs, id,
                              acceptedReceipt(id, Acks[nextAck(receipts)], id), FALSE)
    /\ evictedIDs' = evictedIDs \cup dropped(receipts, conf.MaxDocs)
    /\ UNCHANGED <<otherVars, wsVars, bus, rawConf, persistence, http, conf,
                   smartContractGW, reservedIDs, flow, consumer, nReplies,
                   sendReplies, postDeploys, panicked>>

\* GET /replies/:id and GET /reply/:id
GetReplyReq(auth, id, getOK) ==
    /\ http = NoHttp
    /\ (~auth \/ persistence = "nil") => getOK
    /\ http' = [req |-> [handler |-> "getReply", auth |-> auth, id |-> id,
                         q |-> NoHttp.req.q, getOK |-> getOK],
                res |-> getReply(auth, id, persistence, receipts, getOK)]
    /\ UNCHANGED <<otherVars, wsVars, bus, rawConf, persistence, conf,
                   smartContractGW, receipts, reservedIDs, flow, consumer,
                   nReplies, sendReplies, postDeploys, panicked, evictedIDs>>

\* GET /replies
GetRepliesReq(auth, q, getOK) ==
    /\ http = NoHttp
    /\ (~auth \/ persistence = "nil") => getOK
    /\ http' = [req |-> [handler |-> "getReplies", auth |-> auth, id |-> "",
                         q |-> q, getOK |-> getOK],
                res |-> getReplies(auth, q, persistence, conf, receipts, getOK)]
    /\ UNCHANGED <<otherVars, wsVars, bus, rawConf, persistence, conf,
                   smartContractGW, receipts, reservedIDs, flow, consumer,
                   nReplies, sendReplies, postDeploys, panicked, evictedIDs>>

\* The handler has returned and the exchange is over.
Served ==
    /\ http # NoHttp
    /\ http' = NoHttp
    /\ UNCHANGED <<otherVars, wsVars, bus, rawConf, persistence, conf,
                   smartContractGW, receipts, reservedIDs, flow, consumer,
                   nReplies, sendReplies, postDeploys, panicked, evictedIDs>>

RestInit ==
    /\ rawConf = Configured
    /\ persistence \in {"memory", "nil"}
    /\ http = NoHttp
    /\ conf = newReceiptStore(rawConf)
    /\ smartContractGW = FALSE
    /\ receipts = <<>>
    /\ reservedIDs = {}
    /\ flow = [f \in Flows |-> IdleFlow]
    /\ consumer = IdleConsumer
    /\ nReplies = 0
    /\ sendReplies = <<>>
    /\ postDeploys = <<>>
    /\ panicked = FALSE
    /\ evictedIDs = {}
    /\ WsQuiet
    /\ bus = NoBus
    /\ hook = NoHook
    /\ cs = NoContracts

RestNext ==
    \/ \E id \in IDs : StoreAdd(id)
    \/ /\ http = NoHttp
       /\ \E auth \in BOOLEAN, id \in IDs, getOK \in BOOLEAN :
             GetReplyReq(auth, id, getOK)
    \/ /\ http = NoHttp
       /\ \E auth \in BOOLEAN, q \in Queries, getOK \in BOOLEAN :
             GetRepliesReq(auth, q, getOK)
    \/ Served

RestSpec == RestInit /\ [][RestNext]_vars

----------------------------------------------------------------------------
(* Properties *)

Holding(f) == flow[f].pc \in {"reserved", "produced", "failed", "written"}

Stored(id) == \E i \in 1..Len(receipts) : receipts[i]._id = id

Clean(f) == flow[f].err \in {NoError, KeyNotUnique}

C3_ReserveOutcome ==
    [][\A f \in Flows, getOK \in BOOLEAN : \A id \in FlowIDs(f) :
          FlowReserve(f, id, getOK)
          => IF ~getOK
             THEN /\ flow'[f].pc = "rejected" /\ flow'[f].err = PersistenceError
                  /\ reservedIDs' = reservedIDs
             ELSE IF Stored(id) \/ id \in reservedIDs
             THEN /\ flow'[f].pc = "rejected" /\ flow'[f].err = KeyNotUnique
                  /\ reservedIDs' = reservedIDs
             ELSE /\ flow'[f].pc = "reserved" /\ flow'[f].err = NoError
                  /\ reservedIDs' = reservedIDs \cup {id}
                  /\ id \notin reservedIDs]_vars

\* C3 witness: one reserveID failed on the persistence error and left the
\* set empty, another was refused for a persisted receipt.
C3_Witness ==
    /\ flow[1].pc = "rejected" /\ flow[1].err = PersistenceError
    /\ flow[2].pc = "rejected" /\ flow[2].err = KeyNotUnique
    /\ reservedIDs = {}
    /\ Stored(flow[2].id)

Terminal(r) == r.type \in {MsgTypeTransactionSuccess, MsgTypeTransactionFailure}

\* The consumer is inside processReply for a redelivery-prevented reply.
RedeliveryInHand ==
    /\ consumer.pc = "write"
    /\ consumer.receipt.type = MsgTypeTransactionRedeliveryPrevented

\* C4: once the stored receipt of an ID is a transaction success or failure,
\* processing a redelivery-prevented reply for the ID writes nothing and
\* calls no hook: the stored receipt stays as it is.
C4_RedeliveryKeepsTerminal ==
    [][\A id \in IDs :
          (/\ Terminal(GetReceipt(receipts, id))
           /\ \/ RedeliveryInHand /\ consumer.receipt._id = id
              \/ \E msg \in ReplyMessages, g, p, d \in BOOLEAN :
                    /\ ReplyBegin(msg, g, p, d)
                    /\ msg.type = MsgTypeTransactionRedeliveryPrevented
                    /\ msg.requestId = id)
          => /\ receipts' = receipts
             /\ sendReplies' = sendReplies
             /\ postDeploys' = postDeploys
             /\ consumer'.pc = "idle"]_vars

\* C5: a receipt that has reached success or failure is never afterwards
\* replaced by a pending receipt or by a receipt of another type.
C5_TerminalStays ==
    [][\A id \in IDs :
          Terminal(GetReceipt(receipts, id))
          => \/ ~Stored(id)'
             \/ /\ Terminal(GetReceipt(receipts', id))
                /\ ~GetReceipt(receipts', id).pending]_vars

\* The synthetic error a redelivery-prevented reply is turned into.
Synthetic(id, hash) ==
    [_id |-> id, requestId |-> id, type |-> MsgTypeTransactionRedeliveryPrevented,
     pending |-> FALSE, msgAck |-> "", transactionHash |-> hash,
     contractAddress |-> "", errorCode |-> ResubmissionPreventedCode,
     errorMessage |-> ResubmissionPreventedText]

C7_HappyPath ==
    [][/\ \A msg \in ReplyMessages, g, p, d \in BOOLEAN :
            (/\ ReplyBegin(msg, g, p, d)
             /\ msg.json /\ msg.headers /\ msg.requestId # NoId
             /\ msg.type = MsgTypeTransactionSuccess)
            => /\ consumer'.pc = "write"
               /\ consumer'.receipt._id = msg.requestId
               /\ consumer'.receipt.type = MsgTypeTransactionSuccess
               /\ consumer'.receipt.transactionHash = msg.transactionHash
               /\ ~consumer'.receipt.pending
       /\ \A id \in IDs :
            (/\ GetReceipt(receipts, id).pending
             /\ consumer.pc = "write" /\ consumer.receipt._id = id
             /\ consumer.receipt.type = MsgTypeTransactionSuccess
             /\ consumer'.pc = "idle")
            => GetReceipt(receipts', id) = consumer.receipt]_vars

\* C7 witness: the request "r1" was admitted (202), the success reply with
\* hash 0xabcd is what is read for it, the pending receipt lies behind.
C7_Witness ==
    /\ flow[1].status = 202 /\ flow[1].pc = "done"
    /\ GetReceipt(receipts, "r1").type = MsgTypeTransactionSuccess
    /\ GetReceipt(receipts, "r1").transactionHash = "0xabcd"
    /\ \E i \in 2..Len(receipts) : receipts[i]._id = "r1" /\ receipts[i].pending
    /\ consumer.pc = "idle"

\* C8: a reply that is not JSON, has no headers object or no non-empty string
\* headers.requestId is dropped: no receipt is written, no hook is called,
\* nothing of the store changes.
C8_MalformedDropped ==
    [][\A msg \in ReplyMessages, g, p, d \in BOOLEAN :
          (ReplyBegin(msg, g, p, d) /\ (~msg.json \/ ~msg.headers \/ msg.requestId = NoId))
          => /\ receipts' = receipts
             /\ sendReplies' = sendReplies
             /\ postDeploys' = postDeploys
             /\ reservedIDs' = reservedIDs
             /\ consumer' = consumer
             /\ consumer.pc = "idle"]_vars

\* C8 witness: replies were taken from the bus and nothing was written nor
\* handed to a hook.
C8_Witness ==
    /\ nReplies = MaxReplies
    /\ receipts = <<>> /\ sendReplies = <<>> /\ postDeploys = <<>>
    /\ consumer.pc = "idle"
    /\ smartContractGW

\* C9 as stated: every stored receipt has _id equal to headers.requestId.
C9_IdIsRequestId ==
    \A i \in 1..Len(receipts) : receipts[i]._id = receipts[i].requestId

\* C9 amended: every receipt written by processReply has _id equal to its
\* non-empty headers.requestId; a pending receipt written by writeAccepted
\* has _id equal to the request ID of the flow that wrote it, whatever the
\* caller's message holds at headers.requestId.
C9_ReplyIdIsRequestId ==
    \A i \in 1..Len(receipts) :
        IF receipts[i].pending
        THEN \E f \in Flows :
                /\ flow[f].pc \in {"written", "done"} /\ flow[f].err = NoError
                /\ flow[f].id = receipts[i]._id
        ELSE receipts[i]._id = receipts[i].requestId /\ receipts[i]._id \in IDs

\* C9 witness: a reply receipt keyed by its headers.requestId next to a
\* pending receipt whose message has no headers.requestId.
C9_Witness ==
    \E i, j \in 1..Len(receipts) :
        /\ ~receipts[i].pending /\ receipts[i]._id = "r1" /\ receipts[i].requestId = "r1"
        /\ receipts[j].pending /\ receipts[j]._id = "r1" /\ receipts[j].requestId = NoId

\* C10: on the reply path writeReceipt leaves its loop only by an AddReceipt
\* that succeeded, with the receipt stored, or by aborting the process after
\* a failed attempt that found more than RetryTimeoutMS elapsed; a failed
\* attempt within the deadline is followed by another one for the same
\* receipt.  A started loop always ends in one of the two ways.
C10_StoredOrAbort ==
    /\ [][/\ \A ok \in BOOLEAN, dur \in CallDurations :
               WriteAttempt(ok, dur)
               => IF ok
                  THEN /\ consumer'.pc = "idle" /\ ~panicked'
                       /\ Len(receipts') > 0 /\ receipts'[1] = consumer.receipt
                  ELSE /\ receipts' = receipts /\ sendReplies' = sendReplies
                       /\ consumer'.pc = "write"
                       /\ consumer'.receipt = consumer.receipt
                       /\ consumer'.attempt = consumer.attempt + 1
                       /\ panicked' = (consumer'.elapsed > conf.RetryTimeoutMS * Millisecond)
          /\ (consumer.pc = "write" /\ consumer'.pc # "write")
               => GetReceipt(receipts', consumer.receipt._id) = consumer.receipt
          /\ (~panicked /\ panicked')
               => consumer'.pc = "write" /\ receipts' = receipts]_vars
    /\ (consumer.pc = "write") ~> (consumer.pc = "idle" \/ panicked)

\* C10 witness: the process aborted on the fourth failed attempt, past the
\* deadline, with the reply still in hand.
C10_Witness ==
    /\ panicked
    /\ consumer.pc = "write" /\ consumer.attempt = 4
    /\ consumer.elapsed > conf.RetryTimeoutMS * Millisecond
    /\ ~Stored(consumer.receipt._id)

\* C11: with overwriteAndRetry false (the accepted-write of ingress)
\* writeReceipt makes exactly one AddReceipt attempt and returns: when the
\* attempt fails the error goes back to the caller at once, with no sleep, no
\* further attempt, no abort, no SendReply and nothing stored.
C11_AcceptedWriteOnce ==
    /\ [](\A f \in Flows : flow[f].w.attempt <= 1 /\ flow[f].slept = 0)
    /\ [][\A f \in Flows, ok \in BOOLEAN : \A h \in {NoId, flow[f].id} :
            FlowWriteAccepted(f, h, ok)
            => /\ flow[f].w.attempt = 0 /\ flow'[f].w.attempt = 1
               /\ flow'[f].pc = "written"
               /\ flow'[f].slept = 0
               /\ ~panicked'
               /\ consumer' = consumer
               /\ IF ok
                  THEN /\ flow'[f].err = NoError
                       /\ receipts'[1] = acceptedReceipt(flow[f].id, "ack", h)
                  ELSE /\ flow'[f].err = PersistenceError
                       /\ flow'[f].status = 500
                       /\ receipts' = receipts
                       /\ sendReplies' = sendReplies]_vars

\* C11 witness: a gateway is configured, the one attempt of a flow failed and
\* the flow has its error, nothing was stored or handed to SendReply.
C11_Witness ==
    /\ smartContractGW
    /\ \E f \in Flows :
          /\ flow[f].pc = "written" /\ flow[f].err = PersistenceError
          /\ flow[f].w.attempt = 1
    /\ receipts = <<>> /\ sendReplies = <<>> /\ ~panicked

\* C12: on the reply path every turn of writeReceipt is one AddReceipt
\* attempt, so k consecutive failures and then a success are k+1 attempts;
\* the first attempt is not preceded by a sleep, the first retry is preceded
\* by a sleep of the initial delay and every later retry by 1.1 times the
\* sleep before (cut to the time unit), which is initialDelay x 1.1^(i-1)
\* before the i-th retry: 500, 550, 605 ms for the default delay.  The
\* initial delay and the timeout are 500 ms and 120 s when the configured
\* value is <= 0, and the configured value otherwise.
C12_Backoff ==
    /\ [](/\ conf.RetryInitialDelayMS =
               IF rawConf.RetryInitialDelayMS <= 0 THEN 500
               ELSE rawConf.RetryInitialDelayMS
          /\ conf.RetryTimeoutMS =
               IF rawConf.RetryTimeoutMS <= 0 THEN 120000
               ELSE rawConf.RetryTimeoutMS)
    /\ [](consumer.pc = "write" =>
            /\ consumer.attempt <= 1 => consumer.delay = conf.RetryInitialDelayMS * 1000
            /\ (rawConf.RetryInitialDelayMS <= 0 /\ consumer.attempt \in 1..3)
                 => consumer.delay = <<500000, 550000, 605000>>[consumer.attempt])
    /\ [][\A ok \in BOOLEAN, dur \in CallDurations :
            WriteAttempt(ok, dur)
            => IF ok
               THEN /\ consumer'.pc = "idle"
                    /\ receipts'[1] = consumer.receipt
               ELSE /\ consumer'.attempt = consumer.attempt + 1
                    /\ consumer'.receipt = consumer.receipt
                    /\ receipts' = receipts
                    /\ consumer'.elapsed - consumer.elapsed - dur
                         = IF consumer.attempt = 0 THEN 0 ELSE consumer.delay
                    /\ IF consumer.attempt = 0
                       THEN consumer'.delay = consumer.delay
                       ELSE /\ consumer'.delay * 10 <= consumer.delay * 11
                            /\ consumer'.delay * 10 > consumer.delay * 11 - 10]_vars

\* C12 witness: delay and timeout were configured as 0; persistence failed
\* four times and the three retries so far slept 500, 550 and 605 ms; the
\* next sleep is 665.5 ms.
C12_Witness ==
    /\ rawConf.RetryInitialDelayMS = 0 /\ rawConf.RetryTimeoutMS = 0
    /\ consumer.pc = "write" /\ consumer.attempt = 4
    /\ consumer.elapsed = (500 + 550 + 605) * 1000
    /\ consumer.delay = 665500
    /\ ~panicked

NonPending(seq) == SelectSeq(seq, LAMBDA r : ~r.pending)

Reverse(seq) == [i \in 1..Len(seq) |-> seq[Len(seq) + 1 - i]]

\* C13: with a gateway configured, on the reply path SendReply is called
\* once for every reply that is persisted, in the turn whose AddReceipt
\* succeeded and with the receipt that was stored; a turn whose AddReceipt
\* failed calls nothing, and processReply calls nothing for a reply it drops
\* or before the write: the replies handed to SendReply are at every moment
\* exactly the reply receipts persisted so far, in the order they were stored.
C13_SendReplyOncePerStored ==
    /\ []((smartContractGW /\ evictedIDs = {})
            => NonPending(sendReplies) = Reverse(NonPending(receipts)))
    /\ [](~smartContractGW => sendReplies = <<>>)
    /\ [][/\ \A ok \in BOOLEAN, dur \in CallDurations :
               WriteAttempt(ok, dur)
               => IF ok /\ smartContractGW
                  THEN /\ sendReplies' = Append(sendReplies, consumer.receipt)
                       /\ receipts'[1] = consumer.receipt
                  ELSE sendReplies' = sendReplies
          /\ \A msg \in ReplyMessages, g, p, d \in BOOLEAN :
               ReplyBegin(msg, g, p, d) => sendReplies' = sendReplies]_vars

\* C13 witness: of two replies taken from the bus one was dropped and one
\* persisted, and SendReply got that one receipt.
C13_Witness ==
    /\ smartContractGW
    /\ nReplies = 2 /\ consumer.pc = "idle"
    /\ Len(receipts) = 1 /\ ~receipts[1].pending
    /\ sendReplies = <<receipts[1]>>

\* The reply asks for PostDeploy: it is processed, a gateway is configured,
\* it is a transaction success and names a contract.
DeployCase(msg) ==
    /\ msg.json /\ msg.headers /\ msg.requestId # NoId
    /\ smartContractGW
    /\ msg.type = MsgTypeTransactionSuccess
    /\ msg.contractAddress # ""

\* C14: processReply calls PostDeploy, once and for the reply in hand, only
\* when a gateway is configured, the reply is a transaction success and its
\* contractAddress is non-empty, and always then unless the reply fails to
\* parse as a transaction receipt; whether PostDeploy returns an error or the
\* parse fails, processReply goes on to write the receipt, which is stored
\* and handed to SendReply by the turn whose AddReceipt succeeds.
C14_PostDeploy ==
    [][/\ \A msg \in ReplyMessages, g, p, d \in BOOLEAN :
            ReplyBegin(msg, g, p, d)
            => /\ IF DeployCase(msg) /\ p
                  THEN postDeploys' = Append(postDeploys,
                                             [requestId |-> msg.requestId, err |-> ~d])
                  ELSE postDeploys' = postDeploys
               /\ DeployCase(msg)
                    => /\ consumer'.pc = "write"
                       /\ consumer'.receipt._id = msg.requestId
                       /\ consumer'.receipt.type = MsgTypeTransactionSuccess
                       /\ consumer'.receipt.contractAddress = msg.contractAddress
       /\ (consumer.pc = "write" /\ consumer'.pc = "idle" /\ smartContractGW)
            => /\ receipts'[1] = consumer.receipt
               /\ sendReplies' = Append(sendReplies, consumer.receipt)
       /\ \A ok \in BOOLEAN, dur \in CallDurations :
            WriteAttempt(ok, dur) => postDeploys' = postDeploys]_vars

\* C14 witness: PostDeploy was called for "r1" and returned an error; the
\* success receipt with its contract address is stored and SendReply got it.
C14_Witness ==
    /\ postDeploys = <<[requestId |-> "r1", err |-> TRUE]>>
    /\ Len(receipts) = 1
    /\ receipts[1].type = MsgTypeTransactionSuccess
    /\ receipts[1].contractAddress = "0xc0"
    /\ sendReplies = <<receipts[1]>>
    /\ consumer.pc = "idle"

\* A request is being served by the named handler.
Serving(handler) == http.req.handler = handler

\* C15: on GET /replies, /replies/:id and /reply/:id the auth collaborator
\* is asked first: when it denies, the one response is a 401, whatever the
\* query parameters and whether or not persistence is configured, and the
\* persistence tier is not queried.
C15_AuthFirst ==
    (~Serving("none") /\ ~http.req.auth)
        => http.res = Answer(<<401>>, <<>>, 0)

\* C15 witness: a denied GET /replies with an unparsable limit on a bridge
\* without persistence, answered 401.
C15_Witness ==
    /\ Serving("getReplies") /\ ~http.req.auth
    /\ persistence = "nil"
    /\ http.req.q.limit = "ness"
    /\ http.res.responses = <<401>>

\* C16: an authorized GET of one reply by ID has exactly one of four
\* outcomes: 405 when the store is disabled (nil persistence), 500 when
\* persistence returns an error, 404 when there is no receipt for the ID,
\* 200 with the receipt otherwise.
C16_GetReplyOutcome ==
    [][\A id \in IDs, getOK \in BOOLEAN :
          GetReplyReq(TRUE, id, getOK)
          => http'.res =
               IF persistence = "nil" THEN Answer(<<405>>, <<>>, 0)
               ELSE IF ~getOK THEN Answer(<<500>>, <<>>, 1)
               ELSE IF ~Stored(id) THEN Answer(<<404>>, <<>>, 1)
               ELSE Answer(<<200>>, <<GetReceipt(receipts, id)>>, 1)]_vars

\* An authorized GET /replies is being served from a configured store.
ServingReplies ==
    /\ Serving("getReplies") /\ http.req.auth
    /\ persistence = "memory"

OnlyLimitAndSkip ==
    /\ http.req.q.ids = <<>>
    /\ http.req.q.since = ""
    /\ http.req.getOK

\* C18: GET /replies never rejects a request for its limit or skip: a limit
\* above the maximum is cut down to the maximum, a limit or skip that does
\* not parse gives way to the default; in each case the query runs and the
\* response is 200.
C18_NeverRejects ==
    (ServingReplies /\ OnlyLimitAndSkip)
        => /\ http.res.responses = <<200>>
           /\ http.res.queries = 1

\* A parameter of the request being served is malformed.
Malformed ==
    \/ \E i \in 1..Len(http.req.q.ids) : ~uuidCharsVerifier(http.req.q.ids[i])
    \/ http.req.q.limit # "" /\ ~ParseInt(http.req.q.limit).ok
    \/ http.req.q.skip # "" /\ ~ParseInt(http.req.q.skip).ok
    \/ http.req.q.since # "" /\ ~sinceParses(http.req.q.since)

\* C19: an authorized GET /replies with persistence enabled and a malformed
\* parameter (id, limit, skip or since) gets exactly one response, a 400,
\* and the persistence tier is not queried; a 200 is only written when all
\* parameters were well formed.
C19_MalformedIs400 ==
    ServingReplies
        => /\ Malformed => http.res = Answer(<<400>>, <<>>, 0)
           /\ (\E i \in 1..Len(http.res.responses) : http.res.responses[i] = 200)
                => ~Malformed

\* The number of AddReceipt calls made so far on the list of the store.
Added == nextAck(receipts) - 1

\* C20: after any sequence of AddReceipt calls the list holds no more than
\* MaxDocs receipts: the MaxDocs last added, newest first, so that what was
\* dropped was always the oldest; and GetReceipts(skip, limit) without ids
\* returns the elements at positions [skip, skip+limit) of that sequence,
\* nothing when skip is past the end.
C20_CappedNewestFirst ==
    /\ [](/\ Len(receipts) <= conf.MaxDocs
          /\ Len(receipts) = IF Added < conf.MaxDocs THEN Added ELSE conf.MaxDocs
          /\ \A i \in 1..Len(receipts) : receipts[i].msgAck = Acks[Added + 1 - i])
    /\ [](\A skip, limit \in 0..(MaxAdds + 1) :
            LET last == IF skip + limit < Len(receipts) THEN skip + limit
                        ELSE Len(receipts)
                got  == GetReceipts(receipts, skip, limit, <<>>)
            IN  /\ ~got.err
                /\ got.results = [i \in 1..(IF last > skip THEN last - skip ELSE 0)
                                     |-> receipts[skip + i]])
    /\ [][\A id \in IDs :
            (StoreAdd(id) /\ Len(receipts) = conf.MaxDocs)
            => /\ Len(receipts') = conf.MaxDocs
               /\ \A i \in 2..Len(receipts') : receipts'[i] = receipts[i - 1]
               /\ \A i \in 1..Len(receipts') : receipts'[i] # receipts[Len(receipts)]]_vars

\* C20 witness: five receipts were added to a list capped at three, the
\* three newest are kept, and a request with skip=1 and limit=1 was served
\* the second newest.
C20_Witness ==
    /\ Added = 5 /\ conf.MaxDocs = 3
    /\ Len(receipts) = 3
    /\ receipts[1].msgAck = "a5" /\ receipts[3].msgAck = "a3"
    /\ ServingReplies
    /\ http.req.q.skip = "1" /\ http.req.q.limit = "1"
    /\ http.res.body = <<receipts[2]>>

----------------------------------------------------------------------------
\* The positions of list l that hold a receipt of the ID.
HeldFor(l, id) == {i \in 1..Len(l) : l[i]._id = id}

\* C21: AddReceipt(id, receipt, overwrite = false) fails with KeyNotUnique and
\* leaves the store unchanged when a receipt of the ID already exists;
\* AddReceipt with overwrite = true always writes, and afterwards the store
\* holds exactly one receipt of the ID and GetReceipt(id) returns the new one.
\* (ok tells that the store had no failure of its own.)
C21_AddReceiptContract ==
    [][/\ \A f \in Flows : \A h \in {NoId, flow[f].id} :
            (FlowWriteAccepted(f, h, TRUE) /\ Stored(flow[f].id))
               => (receipts' = receipts /\ flow'[f].err = KeyNotUnique)
       /\ \A dur \in CallDurations :
            WriteAttempt(TRUE, dur)
               => /\ Cardinality(HeldFor(receipts', consumer.receipt._id)) = 1
                  /\ GetReceipt(receipts', consumer.receipt._id) = consumer.receipt
      ]_vars

----------------------------------------------------------------------------
(* webSocketServer: the topic map and the closing channel of a topic *)

bridgeVars ==
    <<rawConf, persistence, http, conf, smartContractGW, receipts,
      reservedIDs, flow, consumer, nReplies, sendReplies, postDeploys,
      panicked, evictedIDs>>

\* A topic made for a name that had tp: new sender and receiver channels and
\* a new closing channel, entered in the list cl of the closing channels.
newTopic(tp, cl) ==
    [topic  |-> [made |-> tp.made + 1, serial |-> tp.made + 1,
                 closing |-> Len(cl) + 1],
     closes |-> Append(cl, 0)]

\* getTopic that makes a topic on every call.
getTopicAlways(tp, cl) == newTopic(tp, cl)

\* getTopic, under the mutex: the topic of the map, made on the first call.
getTopic(tp, cl) ==
    IF tp.made = 0 THEN newTopic(tp, cl) ELSE [topic |-> tp, closes |-> cl]

\* close(t.closingChannel): one more close of the channel the topic has now.
closeClosing(tp, cl) == [cl EXCEPT ![tp.closing] = @ + 1]

\* cycleTopic that leaves the closed channel in the topic.
freshClosingNone(tp, cl) == [topic |-> tp, closes |-> cl]

\* t.closingChannel = make(chan struct{})
freshClosing(tp, cl) ==
    [topic |-> [tp EXCEPT !.closing = Len(cl) + 1], closes |-> Append(cl, 0)]

\* A receive from closing channel gen is ready once the channel is closed.
closed(cl, gen) == gen \in 1..Len(cl) /\ cl[gen] > 0

----------------------------------------------------------------------------
(* webSocketAction.attemptBatch *)

\* The channel the batch is sent on.
channelFor(mode) ==
    IF mode = DistributionModeBroadcast THEN "broadcaster" ELSE "sender"

\* attemptBatch that waits for an ack in every mode.
awaitsAckAlways(mode) == TRUE

\* The ack is waited for unless the mode is broadcast.
awaitsAck(mode) == mode # DistributionModeBroadcast

\* attemptBatch that reports every interruption as one of the send.
interruptedAsSend(pc) == InterruptedSend

\* attemptBatch that reports every interruption as one of the receive.
interruptedAsReceive(pc) == InterruptedReceive

\* The error of an interruption, by the select it ends.
interrupted(pc) == IF pc = "send" THEN InterruptedSend ELSE InterruptedReceive

\* attemptBatch that watches the closing channel the topic has now.
closingReadyNow(p, tp, cl) == closed(cl, tp.closing)

\* The closing case of both selects: the channel GetChannels returned.
closingReady(p, tp, cl) == closed(cl, p.closing)

\* The position after c took the batch from the channel.
afterSend(p, c) ==
    IF awaitsAck(p.mode)
    THEN [p EXCEPT !.pc = "receive", !.taker = c, !.via = "send"]
    ELSE [p EXCEPT !.pc = "done", !.taker = c, !.via = "send", !.err = NoError]

\* GetChannels, first half: getTopic returns the topic of the name.
BatchStart(p, t, mode) ==
    /\ prod[p].pc = "idle"
    /\ prod[p].calls < MaxBatches
    /\ wsMux = 0
    /\ LET got == getTopic(topics[t], closes[t])
       IN  /\ topics' = [topics EXCEPT ![t] = got.topic]
           /\ closes' = [closes EXCEPT ![t] = got.closes]
           /\ prod' = [prod EXCEPT ![p] =
                 [IdleProducer EXCEPT !.pc = "channels", !.topic = t,
                                      !.mode = mode, !.sender = got.topic.serial,
                                      !.calls = prod[p].calls + 1]]
    /\ UNCHANGED <<wsMux, sub, bridgeVars, bus, otherVars, owed>>

\* GetChannels, second half: the fields of the topic are read after getTopic
\* has given the mutex back.
BatchChannels(p) ==
    /\ prod[p].pc = "channels"
    /\ prod' = [prod EXCEPT ![p] =
          [@ EXCEPT !.pc = "send", !.closing = topics[prod[p].topic].closing]]
    /\ UNCHANGED <<topics, closes, wsMux, sub, bridgeVars, bus, otherVars,
                   owed>>

\* First select, the send case on the sender channel: connection c, which
\* listens on the topic, takes the batch.
sendCase(p, c) ==
    /\ prod[p].pc = "send"
    /\ channelFor(prod[p].mode) = "sender"
    /\ sub[c].pc = "listening"
    /\ sub[c].topic = prod[p].topic
    /\ sub[c].sender = prod[p].sender
    /\ prod' = [prod EXCEPT ![p] = afterSend(@, c)]
    /\ UNCHANGED <<topics, closes, wsMux, sub, bridgeVars, bus, otherVars>>

\* The send case, with nothing said of what the client of c answers.
BatchSent(p, c) ==
    /\ sendCase(p, c)
    /\ UNCHANGED owed

\* First select, the send case on the broadcaster channel: the hub takes the
\* batch to fan it out to the connections.
BatchBroadcast(p) ==
    /\ prod[p].pc = "send"
    /\ channelFor(prod[p].mode) = "broadcaster"
    /\ prod' = [prod EXCEPT ![p] = afterSend(@, Hub)]
    /\ UNCHANGED <<topics, closes, wsMux, sub, bridgeVars, bus, otherVars,
                   owed>>

\* Either select, the updateInterrupt case: the stream is being updated.
BatchInterrupt(p) ==
    /\ prod[p].pc \in {"send", "receive"}
    /\ prod' = [prod EXCEPT ![p] =
          [@ EXCEPT !.pc = "done", !.via = "update",
                    !.err = interrupted(prod[p].pc)]]
    /\ UNCHANGED <<topics, closes, wsMux, sub, bridgeVars, bus, otherVars,
                   owed>>

\* Either select, the closing case.
BatchClosing(p) ==
    /\ prod[p].pc \in {"send", "receive"}
    /\ closingReady(prod[p], topics[prod[p].topic], closes[prod[p].topic])
    /\ prod' = [prod EXCEPT ![p] =
          [@ EXCEPT !.pc = "done", !.via = "closing",
                    !.err = interrupted(prod[p].pc)]]
    /\ UNCHANGED <<topics, closes, wsMux, sub, bridgeVars, bus, otherVars,
                   owed>>

\* Second select, the receiver case: connection c passes an ack or an error
\* of its client on the receiver channel of the topic.  The channel does not
\* tell which batch the client means.
receiverCase(p, c, e) ==
    /\ prod[p].pc = "receive"
    /\ sub[c].pc = "listening"
    /\ sub[c].topic = prod[p].topic
    /\ sub[c].sender = prod[p].sender
    /\ prod' = [prod EXCEPT ![p] =
          [@ EXCEPT !.pc = "done", !.via = "ack", !.err = e]]
    /\ UNCHANGED <<topics, closes, wsMux, sub, bridgeVars, bus, otherVars>>

\* The receiver case, with a client that may answer at any time.
BatchAck(p, c, e) ==
    /\ receiverCase(p, c, e)
    /\ UNCHANGED owed

\* attemptBatch has returned; the stream may call it again.
BatchReturn(p) ==
    /\ prod[p].pc = "done"
    /\ prod' = [prod EXCEPT ![p] = [IdleProducer EXCEPT !.calls = prod[p].calls]]
    /\ UNCHANGED <<topics, closes, wsMux, sub, bridgeVars, bus, otherVars,
                   owed>>

----------------------------------------------------------------------------
(* The connections of the hub *)

\* A client connects and listens on topic t.
Listen(c, t) ==
    /\ sub[c].pc = "closed"
    /\ wsMux = 0
    /\ Len(closes[t]) <= MaxCycles
    /\ LET got == getTopic(topics[t], closes[t])
       IN  /\ topics' = [topics EXCEPT ![t] = got.topic]
           /\ closes' = [closes EXCEPT ![t] = got.closes]
           /\ sub' = [sub EXCEPT ![c] =
                 [pc |-> "listening", topic |-> t, sender |-> got.topic.serial]]
    /\ UNCHANGED <<wsMux, prod, bridgeVars, bus, otherVars, owed>>

\* The connection is gone: cycleTopic takes the mutex and closes the closing
\* channel of the topic.
Disconnect(c) ==
    /\ sub[c].pc = "listening"
    /\ wsMux = 0
    /\ wsMux' = c
    /\ closes' = [closes EXCEPT ![sub[c].topic] =
                     closeClosing(topics[sub[c].topic], @)]
    /\ sub' = [sub EXCEPT ![c] = [@ EXCEPT !.pc = "cycling"]]
    /\ UNCHANGED <<topics, prod, bridgeVars, bus, otherVars, owed>>

\* cycleTopic installs the new closing channel and gives the mutex back.
cycleTopicEnd(c) ==
    /\ sub[c].pc = "cycling"
    /\ wsMux = c
    /\ LET t     == sub[c].topic
           fresh == freshClosing(topics[t], closes[t])
       IN  /\ topics' = [topics EXCEPT ![t] = fresh.topic]
           /\ closes' = [closes EXCEPT ![t] = fresh.closes]
    /\ wsMux' = 0
    /\ sub' = [sub EXCEPT ![c] = NoConnection]
    /\ UNCHANGED <<prod, bridgeVars, bus, otherVars>>

\* The end of cycleTopic for a connection whose client answers at any time.
Cycled(c) ==
    /\ cycleTopicEnd(c)
    /\ UNCHANGED owed

WsInit ==
    /\ rawConf = Configured
    /\ persistence = "memory"
    /\ http = NoHttp
    /\ conf = newReceiptStore(rawConf)
    /\ smartContractGW = FALSE
    /\ receipts = <<>>
    /\ reservedIDs = {}
    /\ flow = [f \in Flows |-> IdleFlow]
    /\ consumer = IdleConsumer
    /\ nReplies = 0
    /\ sendReplies = <<>>
    /\ postDeploys = <<>>
    /\ panicked = FALSE
    /\ evictedIDs = {}
    /\ WsQuiet
    /\ bus = NoBus
    /\ hook = NoHook
    /\ cs = NoContracts

WsNext ==
    \/ \E p \in Producers, mode \in DistributionModes : \E t \in TopicsOf(p) :
          BatchStart(p, t, mode)
    \/ \E p \in Producers : BatchChannels(p)
    \/ \E p \in Producers, c \in Subscribers : BatchSent(p, c)
    \/ \E p \in Producers : BatchBroadcast(p)
    \/ \E p \in Producers : BatchInterrupt(p)
    \/ \E p \in Producers : BatchClosing(p)
    \/ \E p \in Producers, c \in Subscribers, e \in {NoError, ClientError} :
          BatchAck(p, c, e)
    \/ \E p \in Producers : BatchReturn(p)
    \/ \E c \in Subscribers : \E t \in TopicsOf(c) : Listen(c, t)
    \/ \E c \in Subscribers : Disconnect(c)
    \/ \E c \in Subscribers : Cycled(c)

WsSpec == WsInit /\ [][WsNext]_vars

\* The goroutine inside attemptBatch runs: a select with its closing case
\* ready does not wait for ever.  Nothing is asked of clients or updates.
WsLiveSpec == WsSpec /\ \A p \in Producers : WF_vars(BatchClosing(p))

----------------------------------------------------------------------------
\* The stream waits in one of the selects of a unicast attemptBatch.
Blocked(p) ==
    prod[p].pc \in {"send", "receive"} /\ prod[p].mode # DistributionModeBroadcast

\* The closing channel the stream got from GetChannels is closed.
HeldClosed(p) == closed(closes[prod[p].topic], prod[p].closing)

Interruptions == {InterruptedSend, InterruptedReceive}

\* C22: when a unicast attemptBatch is blocked, sending the batch or waiting
\* for the ack, with the closing channel it got from GetChannels, and
\* cycleTopic runs for the topic because a subscriber disconnected, the
\* closing channel it holds is closed, the call returns in the end, and with
\* an interrupted error unless a client acknowledged meanwhile; no new
\* subscriber and no stream update is needed for that.
C22_CancellationLiveness ==
    /\ [][\A c \in Subscribers, p \in Producers :
            (Disconnect(c) /\ Blocked(p) /\ prod[p].topic = sub[c].topic)
               => closed(closes'[prod[p].topic], prod[p].closing)]_vars
    /\ \A p \in Producers : (Blocked(p) /\ HeldClosed(p)) ~> (prod[p].pc = "done")
    /\ [][\A p \in Producers :
            (Blocked(p) /\ HeldClosed(p) /\ prod'[p].pc = "done"
                /\ prod'[p].via # "ack")
               => prod'[p].err \in Interruptions]_vars

\* A stream that waited for the ack has returned InterruptedReceive on the
\* closing of the topic.
C22_Witness ==
    \E p \in Producers :
        /\ prod[p].pc = "done"
        /\ prod[p].mode = DistributionModeWLD
        /\ prod[p].via = "closing"
        /\ prod[p].err = InterruptedReceive

----------------------------------------------------------------------------
Unicast(p) == prod[p].mode # DistributionModeBroadcast

\* C23: in unicast mode attemptBatch returns nil only when a subscriber took
\* the batch from the sender channel and a nil value was then received on the
\* ack channel; a non-nil ack value is returned unchanged as the error; when
\* the subscriber that took the batch disconnects before the ack, the closing
\* channel of the call is closed and the call, ending without an ack, returns
\* InterruptedReceive.
C23_UnicastAck ==
    /\ [](\A p \in Producers :
            (prod[p].pc = "done" /\ Unicast(p) /\ prod[p].err = NoError)
               => (prod[p].taker \in Subscribers /\ prod[p].via = "ack"))
    /\ [][\A p \in Producers, c \in Subscribers, e \in {NoError, ClientError} :
            BatchAck(p, c, e) => (prod'[p].pc = "done" /\ prod'[p].err = e)]_vars
    /\ [][\A p \in Producers, c \in Subscribers :
            (Disconnect(c) /\ Unicast(p) /\ prod[p].pc = "receive"
                /\ prod[p].taker = c)
               => closed(closes'[prod[p].topic], prod[p].closing)]_vars
    /\ [][\A p \in Producers :
            (Unicast(p) /\ prod[p].pc = "receive" /\ prod'[p].pc = "done"
                /\ prod'[p].via # "ack")
               => prod'[p].err = InterruptedReceive]_vars

\* One stream has returned the nil ack of the client, another one
\* InterruptedReceive after a subscriber took its batch and the topic closed.
C23_Witness ==
    \E p, q \in Producers :
        /\ prod[p].pc = "done" /\ Unicast(p)
        /\ prod[p].via = "ack" /\ prod[p].err = NoError
        /\ prod[q].pc = "done" /\ Unicast(q)
        /\ prod[q].taker \in Subscribers
        /\ prod[q].via = "closing" /\ prod[q].err = InterruptedReceive

----------------------------------------------------------------------------
Broadcast(p) == prod[p].mode = DistributionModeBroadcast

\* C24: in broadcast mode attemptBatch sends on the broadcaster channel, never
\* reads the ack channel and returns nil as soon as the send completes; it
\* never returns InterruptedReceive and never takes an ack from the receiver
\* channel, which is left to the unicast streams.
C24_BroadcastNoAck ==
    /\ [](\A p \in Producers :
            Broadcast(p)
               => /\ prod[p].pc # "receive"
                  /\ prod[p].taker \in {0, Hub}
                  /\ prod[p].via # "ack"
                  /\ prod[p].err \in {NoError, InterruptedSend}
                  /\ (prod[p].pc = "done" /\ prod[p].err = NoError)
                        => (prod[p].taker = Hub /\ prod[p].via = "send"))
    /\ [][\A p \in Producers :
            BatchBroadcast(p)
               => (prod'[p].pc = "done" /\ prod'[p].err = NoError)]_vars
    /\ [][\A p \in Producers, c \in Subscribers, e \in {NoError, ClientError} :
            BatchAck(p, c, e) => Unicast(p)]_vars

\* A broadcast has returned nil while a unicast stream of the same topic still
\* waits for its ack.
C24_Witness ==
    \E p, q \in Producers :
        /\ Broadcast(p) /\ prod[p].pc = "done" /\ prod[p].err = NoError
        /\ Unicast(q) /\ prod[q].pc = "receive"
        /\ prod[q].topic = prod[p].topic

----------------------------------------------------------------------------
\* C25: attemptBatch tells the phase of an interruption: when it returns
\* InterruptedSend the batch was handed to nobody, when it returns
\* InterruptedReceive the batch was handed over and only the ack was missed.
\* A stream update interrupts in either phase, and so does the closing of the
\* topic.
C25_InterruptionPhase ==
    /\ [](\A p \in Producers :
            prod[p].pc = "done"
               => /\ prod[p].err = InterruptedSend => prod[p].taker = 0
                  /\ prod[p].err = InterruptedReceive
                        => (prod[p].taker # 0 /\ prod[p].via # "ack")
                  /\ prod[p].via \in {"update", "closing"}
                        => prod[p].err \in Interruptions)
    /\ [](\A p \in Producers :
            prod[p].pc \in {"send", "receive"}
               => /\ ENABLED BatchInterrupt(p)
                  /\ closed(closes[prod[p].topic], prod[p].closing)
                        => ENABLED BatchClosing(p))
    /\ [][\A p \in Producers :
            (BatchInterrupt(p) \/ BatchClosing(p))
               => /\ prod'[p].pc = "done"
                  /\ prod'[p].err = IF prod[p].pc = "send" THEN InterruptedSend
                                    ELSE InterruptedReceive]_vars

\* A stream update has interrupted one stream before its batch was taken, the
\* closing of the topic another one that waited for its ack.
C25_Witness ==
    \E p, q \in Producers :
        /\ prod[p].pc = "done" /\ prod[p].via = "update"
        /\ prod[p].err = InterruptedSend /\ prod[p].taker = 0
        /\ prod[q].pc = "done" /\ prod[q].via = "closing"
        /\ prod[q].err = InterruptedReceive /\ prod[q].taker \in Subscribers

----------------------------------------------------------------------------
\* C26: however many cycleTopic calls are made on a topic, one after another
\* or at once, every closing channel is closed once and no more (each
\* replaced channel exactly once, the installed one not yet), after a call
\* has completed the closing channel of the topic is a new, open one, and the
\* sender and receiver channels of the topic are never replaced.
C26_CycleTopic ==
    /\ [](\A t \in TopicNames : \A g \in 1..Len(closes[t]) :
            /\ closes[t][g] <= 1
            /\ (topics[t].made = 1 /\ g < topics[t].closing) => closes[t][g] = 1)
    /\ [](\A t \in TopicNames :
            (topics[t].made > 0
                /\ (wsMux = 0 \/ sub[wsMux].topic # t))
               => /\ topics[t].closing = Len(closes[t])
                  /\ closes[t][topics[t].closing] = 0)
    /\ [][\A c \in Subscribers :
            Cycled(c)
               => /\ topics'[sub[c].topic].closing
                        \notin 1..Len(closes[sub[c].topic])
                  /\ ~closed(closes'[sub[c].topic], topics'[sub[c].topic].closing)
                  /\ closes'[sub[c].topic][topics[sub[c].topic].closing] = 1
                  /\ wsMux' = 0]_vars
    /\ [][\A t \in TopicNames :
            topics[t].made > 0 => topics'[t].serial = topics[t].serial]_vars

\* One cycleTopic of the topic has completed and a second one, of another
\* connection, has closed the new channel and not yet installed the next.
C26_Witness ==
    \E t \in TopicNames :
        /\ wsMux # 0
        /\ sub[wsMux].topic = t
        /\ Len(closes[t]) = 2
        /\ closes[t] = <<1, 1>>

----------------------------------------------------------------------------
\* C27: a topic is created at most once for a name, on the first getTopic
\* call for it (of a stream through GetChannels or of a connection), however
\* the first calls interleave; all callers for the name get the same sender
\* and receiver channels; a topic never leaves the map.
C27_TopicOnce ==
    /\ [](\A t \in TopicNames : topics[t].made <= 1)
    /\ [](\A p \in Producers :
            prod[p].pc # "idle"
               => (topics[prod[p].topic].made = 1
                     /\ prod[p].sender = topics[prod[p].topic].serial))
    /\ [](\A c \in Subscribers :
            sub[c].pc # "closed"
               => (topics[sub[c].topic].made = 1
                     /\ sub[c].sender = topics[sub[c].topic].serial))
    /\ [][\A t \in TopicNames :
            topics'[t].made # topics[t].made
               => /\ topics[t].made = 0
                  /\ \/ \E p \in Producers, mode \in DistributionModes :
                          BatchStart(p, t, mode)
                     \/ \E c \in Subscribers : Listen(c, t)]_vars
    /\ [][\A t \in TopicNames :
            topics[t].made > 0
               => /\ topics'[t].made = topics[t].made
                  /\ topics'[t].serial = topics[t].serial]_vars

\* Two streams and a connection use the same topic, and the other topic has
\* been made as well.
C27_Witness ==
    /\ \A t \in TopicNames : topics[t].made = 1
    /\ \E p, q \in Producers, c \in Subscribers :
          /\ p # q
          /\ prod[p].pc # "idle" /\ prod[q].pc # "idle"
          /\ sub[c].pc = "listening"
          /\ prod[p].topic = prod[q].topic /\ sub[c].topic = prod[p].topic
          /\ prod[p].sender = prod[q].sender /\ sub[c].sender = prod[p].sender

----------------------------------------------------------------------------
(* kafkaCommon.Start, the goroutines it starts, and the shutdown *)

\* sync.WaitGroup
Add(wg, n) == wg + n
Done(wg) == wg - 1

\* Start that does not wait for its goroutines.
WaitSkipped(wg) == TRUE

\* wg.Wait() returns when the counter is zero.
Wait(wg) == wg = 0

\* A messages loop that may leave the range at any time.
rangeEndsAnytime(chans) == TRUE

\* A range over a channel of the client ends when the channel is closed.
rangeEnds(chans) == chans = "closed"

\* connect: the client is made, or Start returns the error.
StartConnect(ok) ==
    /\ ~panicked
    /\ bus.start = "connect"
    /\ bus' = [bus EXCEPT !.start = IF ok THEN "startConsumer" ELSE "failed"]
    /\ UNCHANGED <<wsVars, bridgeVars, otherVars>>

\* startConsumer: the consumer and its three goroutines.
StartConsumer(ok) ==
    /\ ~panicked
    /\ bus.start = "startConsumer"
    /\ bus' = IF ok
              THEN [bus EXCEPT !.start = "startProducer",
                               !.consumer = "set",
                               !.args["messages"] = <<"set", bus.producer>>,
                               !.consumerChans = "open",
                               !.consumerWG = Add(@, 3),
                               !.task = [t \in TaskNames |->
                                   IF t \in ConsumerTasks THEN "running"
                                   ELSE bus.task[t]]]
              ELSE [bus EXCEPT !.start = "failed"]
    /\ UNCHANGED <<wsVars, bridgeVars, otherVars>>

\* startProducer: the producer and its two goroutines; then Start makes the
\* signals channel (one place) and asks for the interrupt signal.
StartProducer(ok) ==
    /\ ~panicked
    /\ bus.start = "startProducer"
    /\ bus' = IF ok
              THEN [bus EXCEPT !.start = "running",
                               !.producer = "set",
                               !.args = [t \in TaskNames |->
                                   IF t \in ProducerTasks
                                   THEN <<bus.consumer, "set">> ELSE bus.args[t]],
                               !.producerChans = "open",
                               !.producerWG = Add(@, 2),
                               !.task = [t \in TaskNames |->
                                   IF t \in ProducerTasks THEN "running"
                                   ELSE bus.task[t]]]
              ELSE [bus EXCEPT !.start = "failed"]
    /\ UNCHANGED <<wsVars, bridgeVars, otherVars>>

\* The process is sent an interrupt: it goes into k.signals if there is room.
Interrupt ==
    /\ ~panicked
    /\ bus.start \notin {"connect", "startConsumer", "startProducer", "failed"}
    /\ bus.signals = 0
    /\ bus' = [bus EXCEPT !.signals = 1]
    /\ UNCHANGED <<wsVars, bridgeVars, otherVars>>

\* case <-k.signals: k.producer.AsyncClose()
StartOnSignal ==
    /\ ~panicked
    /\ bus.start = "running"
    /\ bus.signals > 0
    /\ bus' = [bus EXCEPT !.start = "close", !.signals = @ - 1,
                          !.calls = Append(@, "AsyncClose"),
                          !.producerChans = "closing"]
    /\ UNCHANGED <<wsVars, bridgeVars, otherVars>>

\* k.consumer.Close(): returns with the channels of the consumer closed.
StartClose ==
    /\ ~panicked
    /\ bus.start = "close"
    /\ bus' = [bus EXCEPT !.start = "waitProducer",
                          !.calls = Append(@, "Close"),
                          !.consumerChans = "closed"]
    /\ UNCHANGED <<wsVars, bridgeVars, otherVars>>

\* k.producerWG.Wait()
StartWaitProducer ==
    /\ ~panicked
    /\ bus.start = "waitProducer"
    /\ Wait(bus.producerWG)
    /\ bus' = [bus EXCEPT !.start = "waitConsumer"]
    /\ UNCHANGED <<wsVars, bridgeVars, otherVars>>

\* k.consumerWG.Wait(), and Start returns.
StartWaitConsumer ==
    /\ ~panicked
    /\ bus.start = "waitConsumer"
    /\ Wait(bus.consumerWG)
    /\ bus' = [bus EXCEPT !.start = "returned"]
    /\ UNCHANGED <<wsVars, bridgeVars, otherVars>>

\* The producer asked to close has flushed and closes its channels.
ProducerDrained ==
    /\ ~panicked
    /\ bus.producerChans = "closing"
    /\ bus' = [bus EXCEPT !.producerChans = "closed"]
    /\ UNCHANGED <<wsVars, bridgeVars, otherVars>>

\* ProducerErrorLoop / ProducerSuccessLoop: the range ends, wg.Done().
ProducerLoopExit(t) ==
    /\ ~panicked
    /\ bus.task[t] = "running"
    /\ rangeEnds(bus.producerChans)
    /\ bus' = [bus EXCEPT !.task[t] = "done", !.producerWG = Done(@)]
    /\ UNCHANGED <<wsVars, bridgeVars, otherVars>>

\* The goroutines over consumer.Errors() and consumer.Notifications().
ConsumerTaskExit(t) ==
    /\ ~panicked
    /\ bus.task[t] = "running"
    /\ rangeEnds(bus.consumerChans)
    /\ bus' = [bus EXCEPT !.task[t] = "done", !.consumerWG = Done(@)]
    /\ UNCHANGED <<wsVars, bridgeVars, otherVars>>

\* ConsumerMessagesLoop: the next message comes out of consumer.Messages()
\* and processReply is called with it.  Its offset is its number.
LoopReply(msg, getOK, parseOK, deployOK) ==
    /\ bus.task["messages"] = "running"
    /\ bus.consumerChans = "open"
    /\ processReply(msg, getOK, parseOK, deployOK)
    /\ bus' = [bus EXCEPT !.current = IF consumer'.pc = "write" THEN nReplies'
                                      ELSE 0]

\* processReply is inside the loop of writeReceipt.
LoopWrite(ok, dur) ==
    /\ bus.task["messages"] = "running"
    /\ writeReceipt(ok, dur)
    /\ bus' = [bus EXCEPT !.current = IF consumer'.pc = "write" THEN @ ELSE 0,
                          !.persisted = IF ok THEN Append(@, bus.current) ELSE @]

\* ConsumerMessagesLoop: the range over consumer.Messages() ends, wg.Done().
LoopExit ==
    /\ ~panicked
    /\ bus.task["messages"] = "running"
    /\ consumer.pc = "idle"
    /\ rangeEnds(bus.consumerChans)
    /\ bus' = [bus EXCEPT !.task["messages"] = "done", !.consumerWG = Done(@),
                          !.dones = @ + 1]
    /\ UNCHANGED <<wsVars, bridgeVars, otherVars>>

BusInit ==
    /\ rawConf = Configured
    /\ persistence = "memory"
    /\ http = NoHttp
    /\ conf = newReceiptStore(rawConf)
    /\ smartContractGW = FALSE
    /\ receipts = <<>>
    /\ reservedIDs = {}
    /\ flow = [f \in Flows |-> IdleFlow]
    /\ consumer = IdleConsumer
    /\ nReplies = 0
    /\ sendReplies = <<>>
    /\ postDeploys = <<>>
    /\ panicked = FALSE
    /\ evictedIDs = {}
    /\ WsQuiet
    /\ bus = NoBus
    /\ hook = NoHook
    /\ cs = NoContracts

BusNext ==
    \/ \E ok \in BOOLEAN : StartConnect(ok)
    \/ \E ok \in BOOLEAN : StartConsumer(ok)
    \/ \E ok \in BOOLEAN : StartProducer(ok)
    \/ Interrupt
    \/ StartOnSignal
    \/ StartClose
    \/ StartWaitProducer
    \/ StartWaitConsumer
    \/ ProducerDrained
    \/ \E t \in ProducerTasks : ProducerLoopExit(t)
    \/ \E t \in ConsumerTasks \ {"messages"} : ConsumerTaskExit(t)
    \/ \E msg \in ReplyMessages, getOK \in BOOLEAN, parseOK \in BOOLEAN,
          deployOK \in BOOLEAN :
          LoopReply(msg, getOK, parseOK, deployOK)
    \/ \E ok \in BOOLEAN, dur \in CallDurations : LoopWrite(ok, dur)
    \/ LoopExit

BusSpec == BusInit /\ [][BusNext]_vars

----------------------------------------------------------------------------
(* Properties of the bus gateway *)

\* The calls Start has made on the clients are the first of AsyncClose, Close.
ShutdownCalls == <<"AsyncClose", "Close">>

\* C28: once the consumer and the producer are started, Start leaves its
\* select only by taking an interrupt out of k.signals, and its next call
\* is producer.AsyncClose; consumer.Close is called after that and nothing
\* else is; and when Start has returned, both producer loops and the three
\* consumer tasks have called Done and both counters are zero.
C28_Shutdown ==
    /\ [][bus.start = "running" /\ bus'.start # "running"
            => /\ bus.signals > 0
               /\ bus'.calls = <<"AsyncClose">>]_vars
    /\ [](/\ Len(bus.calls) <= Len(ShutdownCalls)
          /\ bus.calls = SubSeq(ShutdownCalls, 1, Len(bus.calls))
          /\ bus.start \in {"connect", "startConsumer", "startProducer",
                            "failed", "running"} => bus.calls = <<>>)
    /\ [](bus.start = "returned"
            => /\ bus.calls = ShutdownCalls
               /\ \A t \in TaskNames : bus.task[t] = "done"
               /\ bus.producerWG = 0
               /\ bus.consumerWG = 0)

\* Start has returned after an interrupt, with a receipt written before it.
C28_Witness ==
    /\ bus.start = "returned"
    /\ bus.dones = 1
    /\ Len(bus.persisted) > 0

\* C29: a message is taken out of consumer.Messages() only when no reply is
\* being processed, so the message being written has a greater offset than
\* every one written before and the receipts are written in offset order;
\* the loop calls wg.Done() once at most, and only with the stream closed and
\* no reply being processed.
C29_OrderedReplies ==
    /\ [][nReplies' # nReplies
            => /\ consumer.pc = "idle"
               /\ bus.current = 0
               /\ bus.dones = 0]_vars
    /\ [](/\ \A i, j \in DOMAIN bus.persisted :
                i < j => bus.persisted[i] < bus.persisted[j]
          /\ bus.current # 0 =>
                \A i \in DOMAIN bus.persisted : bus.persisted[i] < bus.current
          /\ consumer.pc = "write" <=> bus.current # 0)
    /\ [](bus.dones <= 1)
    /\ [][bus'.dones # bus.dones
            => /\ bus.consumerChans = "closed"
               /\ consumer.pc = "idle"]_vars

\* Two replies were written, the first before the second, and the loop has
\* ended.
C29_Witness ==
    /\ bus.persisted = <<1, 2>>
    /\ bus.dones = 1
    /\ bus.consumerChans = "closed"

\* C30: an offset is handed to MarkOffset only with its receipt written, and
\* when the messages loop has ended the offset of every reply whose receipt
\* was written has been handed to MarkOffset.
C30_CommitAfterPersist ==
    /\ \A o \in bus.marked : \E i \in DOMAIN bus.persisted : bus.persisted[i] = o
    /\ bus.task["messages"] = "done" =>
          \A i \in DOMAIN bus.persisted : bus.persisted[i] \in bus.marked

----------------------------------------------------------------------------
(* Re-delivery, and the hooks of the gateway *)

\* The receipts of the ID as the list query over the whole store shows them.
ListedFor(l, id) ==
    SelectSeq(GetReceipts(l, 0, Len(l), <<>>).results, LAMBDA r : r._id = id)

\* C31: when the receipt a reply gives is the one already stored for its
\* request ID (the reply was processed before), writing it again leaves
\* GetReceipt of the ID and the receipts of the ID in the list query as
\* they were.
C31_RedeliverySafe ==
    [][\A dur \in CallDurations :
          (/\ WriteAttempt(TRUE, dur)
           /\ GetReceipt(receipts, consumer.receipt._id) = consumer.receipt)
             => /\ GetReceipt(receipts', consumer.receipt._id) = consumer.receipt
                /\ ListedFor(receipts', consumer.receipt._id)
                      = ListedFor(receipts, consumer.receipt._id)]_vars

\* C35: every receipt handed to SendReply is the receipt of a reply, none is
\* the pending receipt of writeAccepted.
C35_SendReplyOnlyForReplies ==
    \A i \in DOMAIN sendReplies : ~sendReplies[i].pending

----------------------------------------------------------------------------
(* The release handle invoked once more *)

\* The closure reserveID returned is called again by the flow that already
\* called it: it deletes the ID it was made for from the set.
FlowReleaseAgain(f) ==
    /\ ~panicked
    /\ flow[f].pc = "done"
    /\ reservedIDs' = release(reservedIDs, flow[f].id)
    /\ flow' = [flow EXCEPT ![f] = [@ EXCEPT !.pc = "spent"]]
    /\ UNCHANGED <<otherVars, wsVars, bus, rawConf, persistence, http, conf,
                   smartContractGW, receipts, consumer, nReplies, sendReplies,
                   postDeploys, panicked, evictedIDs>>

HandleNext ==
    \/ Next
    \/ \E f \in Flows : FlowReleaseAgain(f)

HandleSpec == Init /\ [][HandleNext]_vars

\* C36: a handle called again leaves the reservation of every other flow
\* that holds one in the set.
C36_HandleOwnReservation ==
    [][\A f \in Flows :
          FlowReleaseAgain(f)
             => \A g \in Flows \ {f} :
                   (Holding(g) /\ flow[g].id \in reservedIDs)
                      => flow[g].id \in reservedIDs']_vars

\* The goroutines that are handed the consumer and the producer.
Loops == {"messages", "producerErrors", "producerSuccesses"}

\* C37: when Start has returned an error, none of its goroutines is running
\* and the consumer is not open.
C37_NothingLeftOnError ==
    bus.start = "failed"
       => /\ \A t \in TaskNames : bus.task[t] # "running"
          /\ bus.consumerChans # "open"

\* C38: every loop that was started was handed a consumer and a producer
\* that had been created.
C38_LoopsGetClients ==
    \A t \in Loops : bus.task[t] # "none" => bus.args[t] = <<"set", "set">>

----------------------------------------------------------------------------
\* C33: no caller of GetChannels is at its read of the fields of a topic
\* while cycleTopic is inside its locked section on that topic, between the
\* close of closingChannel and the assignment of the new channel.
C33_TopicStateUnderMutex ==
    \A p \in Producers :
        prod[p].pc = "channels"
           => (wsMux = 0 \/ sub[wsMux].topic # prod[p].topic)

----------------------------------------------------------------------------
(* WebhooksBridge.processReply *)

\* getString: "" for a key that is not there; for a key that is there,
\* reflect.TypeOf(val).Kind() is asked, and reflect.TypeOf of a nil value
\* (JSON null) is nil, so the call of Kind fails.
getString(v) ==
    IF v.kind = "absent" THEN [panic |-> FALSE, val |-> ""]
    ELSE IF v.kind = "null" THEN [panic |-> TRUE, val |-> ""]
    ELSE [panic |-> FALSE, val |-> IF v.kind = "string" THEN v.val ELSE ""]

\* The extraction of the headers: the kind that is tested is the one of the
\* variable headers, a map, whatever was found; the value found is then
\* asserted to be a map without the comma-ok form.
headersOf(v) ==
    IF v.kind = "absent" THEN [panic |-> FALSE, found |-> FALSE]
    ELSE IF v.kind = "object" THEN [panic |-> FALSE, found |-> TRUE]
    ELSE [panic |-> TRUE, found |-> FALSE]

\* processReply of the webhooks bridge on message msg; mongo tells whether
\* w.mongo is set, insertOK whether Insert succeeds.  The result: how the
\* call ended, the calls of Insert it made, and the _id it inserted.
webhooksProcessReply(msg, mongo, insertOK) ==
    LET hdr == headersOf(msg.headers)
        rid == getString(msg.requestId)
        fld == getString(msg.field)
        end(l, n, id) == [last |-> l, attempts |-> n, id |-> id]
    IN  IF ~msg.json THEN end("unparsed", 0, "")
        ELSE IF hdr.panic THEN end("panic", 0, "")
        ELSE IF ~hdr.found THEN end("noHeaders", 0, "")
        ELSE IF rid.panic THEN end("panic", 0, "")
        ELSE IF rid.val = "" THEN end("noRequestId", 0, "")
        ELSE IF fld.panic THEN end("panic", 0, "")
        ELSE IF ~mongo THEN end("noStore", 0, "")
        ELSE IF insertOK THEN end("inserted", 1, rid.val)
        ELSE end("insertError", 1, "")

\* ConsumerMessagesLoop of the webhooks bridge hands the next message to
\* processReply.
HookReply(msg, insertOK) ==
    /\ hook.pc = "idle"
    /\ hook.calls < MaxHookReplies
    /\ LET r == webhooksProcessReply(msg, hook.mongo, insertOK)
       IN  hook' = [hook EXCEPT
                      !.pc = IF r.last = "panic" THEN "panicked" ELSE "idle",
                      !.calls = @ + 1,
                      !.inserted = IF r.last = "inserted" THEN Append(@, r.id)
                                   ELSE @,
                      !.attempts = r.attempts,
                      !.last = r.last]
    /\ UNCHANGED <<cs, wsVars, bridgeVars, bus>>

HookInit ==
    /\ rawConf = Configured
    /\ persistence = "memory"
    /\ http = NoHttp
    /\ conf = newReceiptStore(rawConf)
    /\ smartContractGW = FALSE
    /\ receipts = <<>>
    /\ reservedIDs = {}
    /\ flow = [f \in Flows |-> IdleFlow]
    /\ consumer = IdleConsumer
    /\ nReplies = 0
    /\ sendReplies = <<>>
    /\ postDeploys = <<>>
    /\ panicked = FALSE
    /\ evictedIDs = {}
    /\ WsQuiet
    /\ bus = NoBus
    /\ hook \in {[NoHook EXCEPT !.mongo = m] : m \in BOOLEAN}
    /\ cs = NoContracts

HookNext ==
    \E msg \in HookMessages, insertOK \in BOOLEAN : HookReply(msg, insertOK)

HookSpec == HookInit /\ [][HookNext]_vars

\* C32: every call of processReply of the webhooks bridge returns to the
\* loop, whatever the message and whatever Insert does, and makes one call of
\* Insert at most.
C32_ContainsAllErrors ==
    [][hook'.calls # hook.calls
          => /\ hook'.pc = "idle"
             /\ hook'.attempts <= 1]_vars

----------------------------------------------------------------------------
(* contractStore: AddContract *)

\* CheckNameAvailable that finds every name free.
CheckNameAvailableAlways(regs, registerAs) == NoError

\* CheckNameAvailable for a local name (isRemote false): a name-clash error
\* when the name is a key of contractRegistrations.
CheckNameAvailable(regs, registerAs) ==
    IF regs[registerAs] # NoInfo THEN RESTGatewayFriendlyNameClash ELSE NoError

\* addToContractIndex, under idxLock: the error, and the two maps after it.
addToContractIndex(c, info) ==
    LET clash == IF info.RegisteredAs # ""
                 THEN CheckNameAvailable(c.contractRegistrations, info.RegisteredAs)
                 ELSE NoError
    IN  IF clash # NoError
        THEN [err |-> clash, contractIndex |-> c.contractIndex,
              contractRegistrations |-> c.contractRegistrations]
        ELSE [err |-> NoError,
              contractIndex |-> [c.contractIndex EXCEPT ![info.Address] = info],
              contractRegistrations |->
                  IF info.RegisteredAs # ""
                  THEN [c.contractRegistrations EXCEPT ![info.RegisteredAs] = info]
                  ELSE c.contractRegistrations]

\* storeContractInfo: the index first, then the instance file; writeOK tells
\* whether ioutil.WriteFile succeeds.
storeContractInfo(c, info, writeOK) ==
    LET idx == addToContractIndex(c, info)
        at  == [c EXCEPT !.contractIndex = idx.contractIndex,
                         !.contractRegistrations = idx.contractRegistrations]
    IN  IF idx.err # NoError THEN [at EXCEPT !.last = idx.err]
        ELSE IF ~writeOK THEN [at EXCEPT !.last = RESTGatewayLocalStoreContractSave]
        ELSE [at EXCEPT !.files = @ \cup {info.Address}, !.last = NoError]

\* ResolveContractAddress: the address registered under the name, or "".
ResolveContractAddress(c, registeredName) ==
    IF c.contractRegistrations[registeredName] = NoInfo
    THEN [err |-> RESTGatewayLocalStoreContractLoad, address |-> ""]
    ELSE [err |-> NoError,
          address |-> c.contractRegistrations[registeredName].Address]

\* GetContractByAddress
GetContractByAddress(c, addrHexNo0x) ==
    IF c.contractIndex[addrHexNo0x] = NoInfo
    THEN [err |-> RESTGatewayLocalStoreContractNotFound, info |-> NoInfo]
    ELSE [err |-> NoError, info |-> c.contractIndex[addrHexNo0x]]

\* AddContract(addrHexNo0x, abiID, pathName, registerAs)
AddContract(addrHexNo0x, registerAs, writeOK) ==
    /\ cs.calls < MaxContracts
    /\ LET contractInfo == [Address |-> addrHexNo0x, RegisteredAs |-> registerAs]
       IN  cs' = [storeContractInfo(cs, contractInfo, writeOK)
                     EXCEPT !.calls = cs.calls + 1]
    /\ UNCHANGED <<hook, wsVars, bridgeVars, bus>>

ContractInit ==
    /\ rawConf = Configured
    /\ persistence = "memory"
    /\ http = NoHttp
    /\ conf = newReceiptStore(rawConf)
    /\ smartContractGW = FALSE
    /\ receipts = <<>>
    /\ reservedIDs = {}
    /\ flow = [f \in Flows |-> IdleFlow]
    /\ consumer = IdleConsumer
    /\ nReplies = 0
    /\ sendReplies = <<>>
    /\ postDeploys = <<>>
    /\ panicked = FALSE
    /\ evictedIDs = {}
    /\ WsQuiet
    /\ bus = NoBus
    /\ hook = NoHook
    /\ cs = NoContracts

ContractNext ==
    \E a \in Addresses, n \in RegisteredNames \cup {""}, writeOK \in BOOLEAN :
        AddContract(a, n, writeOK)

ContractSpec == ContractInit /\ [][ContractNext]_vars

\* C34: an AddContract with a name that is registered ends with the
\* name-clash error and leaves contractIndex and contractRegistrations as
\* they were; and no step gives a registered name another ContractInfo.
C34_NameNotOverwritten ==
    /\ [][\A a \in Addresses, n \in RegisteredNames, writeOK \in BOOLEAN :
            (AddContract(a, n, writeOK) /\ cs.contractRegistrations[n] # NoInfo)
               => /\ cs'.last = RESTGatewayFriendlyNameClash
                  /\ cs'.contractIndex = cs.contractIndex
                  /\ cs'.contractRegistrations = cs.contractRegistrations]_vars
    /\ [][\A n \in RegisteredNames :
            cs.contractRegistrations[n] # NoInfo
               => cs'.contractRegistrations[n] = cs.contractRegistrations[n]]_vars

\* A name registered for one address was asked for by a contract at another
\* address, and still resolves to the first.
C34_Witness ==
    /\ cs.last = RESTGatewayFriendlyNameClash
    /\ ResolveContractAddress(cs, "n1").address = "a1"
    /\ GetContractByAddress(cs, "a2").err # NoError

\* C39: an AddContract that ends with an error leaves contractIndex and
\* contractRegistrations as they were.
C39_ErrorLeavesIndex ==
    [][(cs'.calls # cs.calls /\ cs'.last # NoError)
          => /\ cs'.contractIndex = cs.contractIndex
             /\ cs'.contractRegistrations = cs.contractRegistrations]_vars

----------------------------------------------------------------------------
(* Unicast with clients that answer the batches they were sent, in order *)

\* The batch of the call of attemptBatch stream p is in.
BatchOf(p) == <<p, prod[p].calls>>

\* The send case: the batch goes to the client of c, which owes its answer.
AckSent(p, c) ==
    /\ sendCase(p, c)
    /\ owed' = [owed EXCEPT ![c] = Append(@, BatchOf(p))]

\* The receiver case: the client of c has answered the oldest batch it owes
\* an answer for, and c passes the answer on the receiver channel.
AckPassed(p, c, e) ==
    /\ owed[c] # <<>>
    /\ receiverCase(p, c, e)
    /\ owed' = [owed EXCEPT ![c] = Tail(@)]

\* The end of cycleTopic: the connection is gone, and what its client owed.
AckCycled(c) ==
    /\ cycleTopicEnd(c)
    /\ owed' = [owed EXCEPT ![c] = <<>>]

AckNext ==
    \/ \E p \in Producers : \E t \in TopicsOf(p) :
          BatchStart(p, t, DistributionModeWLD)
    \/ \E p \in Producers : BatchChannels(p)
    \/ \E p \in Producers, c \in Subscribers : AckSent(p, c)
    \/ \E p \in Producers : BatchInterrupt(p)
    \/ \E p \in Producers : BatchClosing(p)
    \/ \E p \in Producers, c \in Subscribers, e \in {NoError, ClientError} :
          AckPassed(p, c, e)
    \/ \E p \in Producers : BatchReturn(p)
    \/ \E c \in Subscribers : \E t \in TopicsOf(c) : Listen(c, t)
    \/ \E c \in Subscribers : Disconnect(c)
    \/ \E c \in Subscribers : AckCycled(c)

AckSpec == WsInit /\ [][AckNext]_vars

\* C40: the answer a unicast call of attemptBatch receives is the answer to
\* the batch that call sent.
C40_AckOfOwnBatch ==
    [][\A p \in Producers, c \in Subscribers, e \in {NoError, ClientError} :
          AckPassed(p, c, e) => Head(owed[c]) = BatchOf(p)]_vars

====
